---- MODULE Spec2Model ----
(***************************************************************************)
(* Model of the timetabling search engine (scheduler/scheduler_engine.py): *)
(* the schedule-string parser, the section predicates, the conflict test   *)
(* and the backtracking search generate_schedules with its statistics.     *)
(*                                                                         *)
(* A text (Python str) is a sequence of one-character strings.  Python's   *)
(* None is the record None.                                                *)
(***************************************************************************)
EXTENDS Integers, Sequences, FiniteSets, TLC

None == [none |-> TRUE]

\* Python's None where the other values are integers (Optional[int])
NoneInt == -1

\* ------------------------------------------------------------------ text

DigitChars == <<"0", "1", "2", "3", "4", "5", "6", "7", "8", "9">>

IsDigit(c) == \E k \in 1..10 : DigitChars[k] = c

DigitValue(c) == (CHOOSE k \in 1..10 : DigitChars[k] = c) - 1

IsSpace(c) == c = " "

\* int() of a run of decimal digits
RECURSIVE IntOf(_)
IntOf(ds) ==
    IF Len(ds) = 0 THEN 0
    ELSE 10 * IntOf(SubSeq(ds, 1, Len(ds) - 1)) + DigitValue(ds[Len(ds)])

\* s[i:j] with 1-based inclusive bounds
Slice(s, i, j) == SubSeq(s, i, j)

\* index of the first position >= i of s that is not a space (Len(s)+1 if none)
RECURSIVE SkipSpaces(_, _)
SkipSpaces(s, i) ==
    IF i <= Len(s) /\ IsSpace(s[i]) THEN SkipSpaces(s, i + 1) ELSE i

\* index one past the run of non-space characters starting at i
RECURSIVE SkipWord(_, _)
SkipWord(s, i) ==
    IF i <= Len(s) /\ ~IsSpace(s[i]) THEN SkipWord(s, i + 1) ELSE i

\* index one past the run of digits starting at i
RECURSIVE SkipDigits(_, _)
SkipDigits(s, i) ==
    IF i <= Len(s) /\ IsDigit(s[i]) THEN SkipDigits(s, i + 1) ELSE i

\* str.strip().split(): the maximal runs of non-space characters, in order
RECURSIVE SplitWord(_, _, _)
SplitFrom(s, i) == SplitWord(s, SkipSpaces(s, i), SkipWord(s, SkipSpaces(s, i)))

\* the word s[b..e-1] and the words after it
SplitWord(s, b, e) ==
    IF b > Len(s) THEN << >>
    ELSE <<Slice(s, b, e - 1)>> \o SplitFrom(s, e)

Split(s) == SplitFrom(s, 1)

\* " ".join(parts)
RECURSIVE Join(_)
Join(parts) ==
    IF Len(parts) = 0 THEN << >>
    ELSE IF Len(parts) = 1 THEN parts[1]
    ELSE parts[1] \o <<" ">> \o Join(Tail(parts))

\* str.split(':')
RECURSIVE SplitColonFrom(_, _, _)
SplitColonFrom(s, b, i) ==
    IF i > Len(s) THEN <<Slice(s, b, Len(s))>>
    ELSE IF s[i] = ":" THEN <<Slice(s, b, i - 1)>> \o SplitColonFrom(s, i + 1, i + 1)
    ELSE SplitColonFrom(s, b, i + 1)

SplitColon(s) == SplitColonFrom(s, 1, 1)

\* --------------------------------------------------------------- parsing

\* the first of two optional values that is not None
OrElse(a, b) == IF a # None THEN a ELSE b

\* hours * 60 + minutes of the two fields of an 'HH:MM' text
HoursMinutes(hm) == IntOf(hm[1]) * 60 + IntOf(hm[2])

time_to_minutes(time_str) == HoursMinutes(SplitColon(time_str))

IsAP(c) == c \in {"A", "P", "a", "p"}

IsM(c) == c \in {"M", "m"}

Upper(c) == IF c = "a" THEN "A" ELSE IF c = "p" THEN "P" ELSE IF c = "m" THEN "M" ELSE c

\* (\d{1,2}):(\d{2})\s*([AP]M) anchored at position i of s with the hour
\* digits ending before the colon position c and the meridiem at position a,
\* case-insensitive: the groups and the position after the match, or None
TimeGroups(s, i, c, a) ==
    IF /\ c + 2 <= Len(s)
       /\ \A k \in i..(c - 1) : IsDigit(s[k])
       /\ s[c] = ":"
       /\ IsDigit(s[c + 1]) /\ IsDigit(s[c + 2])
       /\ a + 1 <= Len(s)
       /\ IsAP(s[a]) /\ IsM(s[a + 1])
    THEN [hours |-> Slice(s, i, c - 1),
          minutes |-> Slice(s, c + 1, c + 2),
          ampm |-> <<s[a], s[a + 1]>>,
          start |-> i,
          end |-> a + 2]
    ELSE None

\* the attempt with an hour of hl digits
TimeTry(s, i, hl) == TimeGroups(s, i, i + hl, SkipSpaces(s, i + hl + 3))

\* one anchored attempt of the time pattern: \d{1,2} is greedy, the two-digit
\* hour is tried first, then the one-digit hour
TimeAt(s, i) == OrElse(TimeTry(s, i, 2), TimeTry(s, i, 1))

\* the positions >= i of s at which the time pattern matches
TimeHits(s, i) == {k \in i..Len(s) : TimeAt(s, k) # None}

Least(S) == CHOOSE k \in S : \A j \in S : k <= j

\* the match at the least of the positions pos, or None if there is none
TimeFirst(s, pos) == IF pos = {} THEN None ELSE TimeAt(s, Least(pos))

\* re.search of the time pattern: the leftmost match
TimeSearch(s, i) == TimeFirst(s, TimeHits(s, i))

\* TimeValue without the branch that turns 12 AM into hour 0
TimeValueNoMidnight(hours, minutes, ampm) ==
    (IF ampm = <<"P", "M">> /\ hours # 12 THEN hours + 12 ELSE hours) * 60 + minutes

\* the 24-hour conversion of a match
TimeValue(hours, minutes, ampm) ==
    (IF ampm = <<"P", "M">> /\ hours # 12 THEN hours + 12
     ELSE IF ampm = <<"A", "M">> /\ hours = 12 THEN 0
     ELSE hours) * 60 + minutes

MatchValue(match) ==
    IF match = None THEN NoneInt
    ELSE TimeValue(IntOf(match.hours), IntOf(match.minutes),
                   <<Upper(match.ampm[1]), Upper(match.ampm[2])>>)

parse_time_to_minutes(time_str) == MatchValue(TimeSearch(time_str, 1))

\* (<time>)\s*-\s*(<time>) anchored at the first time's match t1: the two groups
RangeSecond(s, t1, t2) ==
    IF t2 = None THEN None
    ELSE [group1 |-> Slice(s, t1.start, t1.end - 1),
          group2 |-> Slice(s, t2.start, t2.end - 1)]

RangeDash(s, t1, d) ==
    IF d > Len(s) \/ s[d] # "-" THEN None
    ELSE RangeSecond(s, t1, TimeAt(s, SkipSpaces(s, d + 1)))

RangeFirst(s, t1) ==
    IF t1 = None THEN None ELSE RangeDash(s, t1, SkipSpaces(s, t1.end))

\* one anchored attempt of the time-range pattern at position i
RangeAt(s, i) == RangeFirst(s, TimeAt(s, i))

RangeHits(s, i) == {k \in i..Len(s) : RangeAt(s, k) # None}

RangeLeftmost(s, pos) == IF pos = {} THEN None ELSE RangeAt(s, Least(pos))

\* re.search of the time-range pattern: the leftmost match
RangeSearch(s, i) == RangeLeftmost(s, RangeHits(s, i))

\* the day run: 'T' immediately followed by 'h' is the token 'Th', any other
\* character is a token of its own
RECURSIVE DayTokens(_, _)
DayTokens(days_part, i) ==
    IF i > Len(days_part) THEN << >>
    ELSE IF days_part[i] = "T" /\ i + 1 <= Len(days_part) /\ days_part[i + 1] = "h"
         THEN <<"Th">> \o DayTokens(days_part, i + 2)
         ELSE <<days_part[i]>> \o DayTokens(days_part, i + 1)

\* the result for the parsed days and the two converted times
ParsedSchedule(days, start_minutes, end_minutes) ==
    IF \/ start_minutes = NoneInt
       \/ end_minutes = NoneInt
       \/ start_minutes >= end_minutes
    THEN None
    ELSE [days |-> days, startTime |-> start_minutes, endTime |-> end_minutes]

ParseMatched(days, time_match) ==
    IF time_match = None THEN None
    ELSE ParsedSchedule(days,
                        parse_time_to_minutes(time_match.group1),
                        parse_time_to_minutes(time_match.group2))

\* parts = schedule_string.strip().split(): days_part = parts[0] and
\* time_part = " ".join(parts[1:])
ParseParts(parts) ==
    IF Len(parts) < 4 THEN None
    ELSE ParseMatched(DayTokens(parts[1], 1), RangeSearch(Join(Tail(parts)), 1))

parse_schedule_string(schedule_string) ==
    IF Len(schedule_string) = 0 THEN None
    ELSE ParseParts(Split(schedule_string))

\* ------------------------------------------------------ schedule texts

MW_0900_1030 == <<"M", "W", " ", "0", "9", ":", "0", "0", " ", "A", "M", " ", "-", " ",
                  "1", "0", ":", "3", "0", " ", "A", "M">>

MW_1000_1130 == <<"M", "W", " ", "1", "0", ":", "0", "0", " ", "A", "M", " ", "-", " ",
                  "1", "1", ":", "3", "0", " ", "A", "M">>

TTh_0900_1030 == <<"T", "T", "h", " ", "0", "9", ":", "0", "0", " ", "A", "M", " ", "-", " ",
                   "1", "0", ":", "3", "0", " ", "A", "M">>

InvalidString == <<"I", "n", "v", "a", "l", "i", "d", " ", "S", "t", "r", "i", "n", "g">>

MW_1030_1200 == <<"M", "W", " ", "1", "0", ":", "3", "0", " ", "A", "M", " ", "-", " ",
                  "1", "2", ":", "0", "0", " ", "P", "M">>

T_0900_1030 == <<"T", " ", "0", "9", ":", "0", "0", " ", "A", "M", " ", "-", " ",
                 "1", "0", ":", "3", "0", " ", "A", "M">>

Th_1000_1100 == <<"T", "h", " ", "1", "0", ":", "0", "0", " ", "A", "M", " ", "-", " ",
                  "1", "1", ":", "0", "0", " ", "A", "M">>

MW_1200_0130 == <<"M", "W", " ", "1", "2", ":", "0", "0", " ", "P", "M", " ", "-", " ",
                  "0", "1", ":", "3", "0", " ", "P", "M">>

MWF_0930_1000 == <<"M", "W", "F", " ", "0", "9", ":", "3", "0", " ", "A", "M", " ", "-", " ",
                   "1", "0", ":", "0", "0", " ", "A", "M">>

\* the schedule texts of the model's sections
ScheduleTexts ==
    {MW_0900_1030, MW_1000_1130, TTh_0900_1030, InvalidString, MW_1030_1200,
     T_0900_1030, Th_1000_1100, MW_1200_0130, MWF_0930_1000}

\* parse_schedule_string on the texts of the model, evaluated once per text
ParseTable == [t \in ScheduleTexts |-> parse_schedule_string(t)]

Parse(schedule_string) ==
    IF schedule_string \in ScheduleTexts THEN ParseTable[schedule_string]
    ELSE parse_schedule_string(schedule_string)

\* ------------------------------------------------- section predicates

\* re.search(r'(\d+)/(\d+)', enrolled): one anchored attempt at position i;
\* \d+ is greedy, so each group is a maximal run of digits
EnrolledGroups(s, i, j) ==
    IF /\ i <= Len(s) /\ IsDigit(s[i])
       /\ j <= Len(s) /\ s[j] = "/"
       /\ j + 1 <= Len(s) /\ IsDigit(s[j + 1])
    THEN [current |-> IntOf(Slice(s, i, j - 1)),
          total |-> IntOf(Slice(s, j + 1, SkipDigits(s, j + 1) - 1))]
    ELSE None

EnrolledAt(s, i) == EnrolledGroups(s, i, SkipDigits(s, i))

EnrolledHits(s, i) == {k \in i..Len(s) : EnrolledAt(s, k) # None}

EnrolledLeftmost(s, pos) == IF pos = {} THEN None ELSE EnrolledAt(s, Least(pos))

\* re.search of the enrolment pattern: the leftmost match
EnrolledSearch(s, i) == EnrolledLeftmost(s, EnrolledHits(s, i))

\* FullMatch with current > total
FullMatchStrict(match) ==
    IF match = None THEN FALSE
    ELSE match.current > match.total

\* current >= total of a match of the enrolment pattern
FullMatch(match) ==
    IF match = None THEN FALSE
    ELSE match.current >= match.total

is_full(section) == FullMatch(EnrolledSearch(section.enrolled, 1))

AtRiskMatch(match) ==
    IF match = None THEN FALSE
    ELSE \/ match.current = 0
         \/ (match.total >= 20 /\ match.current < 6)
         \/ (match.total >= 10 /\ match.current < 2)

is_at_risk(section) == AtRiskMatch(EnrolledSearch(section.enrolled, 1))

\* section.parsed_schedule or parse_schedule_string(section.schedule)
ParsedOf(section) ==
    IF section.parsed_schedule # None THEN section.parsed_schedule
    ELSE Parse(section.schedule)

\* ViableParsed with the two bounds of the window excluded
ViableParsedExclusive(section, cons, parsed, earliest, latest) ==
    IF parsed.startTime <= earliest \/ parsed.endTime >= latest THEN FALSE
    ELSE IF ~cons.allowFull /\ is_full(section) THEN FALSE
    ELSE IF ~cons.allowAt_risk /\ is_at_risk(section) THEN FALSE
    ELSE TRUE

\* is_viable once the schedule is parsed and the window converted to minutes
\* (cons is the constraints argument of the function)
ViableParsed(section, cons, parsed, earliest, latest) ==
    IF parsed.startTime < earliest \/ parsed.endTime > latest THEN FALSE
    ELSE IF ~cons.allowFull /\ is_full(section) THEN FALSE
    ELSE IF ~cons.allowAt_risk /\ is_at_risk(section) THEN FALSE
    ELSE TRUE

\* ViableWith without the test for a schedule that did not parse
ViableWithUnparsed(section, cons, parsed) ==
    IF parsed = None THEN TRUE
    ELSE ViableParsed(section, cons, parsed,
                      time_to_minutes(cons.earliestStart),
                      time_to_minutes(cons.latestEnd))

ViableWith(section, cons, parsed) ==
    IF parsed = None THEN FALSE
    ELSE ViableParsed(section, cons, parsed,
                      time_to_minutes(cons.earliestStart),
                      time_to_minutes(cons.latestEnd))

is_viable(section, cons) == ViableWith(section, cons, ParsedOf(section))

\* dict.get(key, default)
Get(d, key, default) == IF key \in DOMAIN d THEN d[key] ELSE default

\* Section.is_viable of the class-based engine once the schedule is parsed and
\* the window converted to minutes; Section.is_full and Section.is_at_risk
\* compute what is_full and is_at_risk compute
SectionViableParsed(section, cons, parsed, earliest_minutes, latest_minutes) ==
    IF parsed.startTime < earliest_minutes \/ parsed.endTime > latest_minutes THEN FALSE
    ELSE IF ~Get(cons, "allowFull", TRUE) /\ is_full(section) THEN FALSE
    ELSE IF ~Get(cons, "allowAtRisk", TRUE) /\ is_at_risk(section) THEN FALSE
    ELSE TRUE

SectionViableWith(section, cons, parsed) ==
    IF parsed = None THEN FALSE
    ELSE SectionViableParsed(section, cons, parsed,
                             time_to_minutes(cons.earliestStart),
                             time_to_minutes(cons.latestEnd))

\* Section.is_viable(constraints) of the class-based engine;
\* get_parsed_schedule is StandardScheduleParser.parse, the same steps as
\* parse_schedule_string
Section_is_viable(section, cons) ==
    SectionViableWith(section, cons, Parse(section.schedule))

\* set(p['days'])
DaySet(p) == {p.days[k] : k \in 1..Len(p.days)}

\* ParsedConflict with only the first of the two comparisons
ParsedConflictOneSided(p1, p2) ==
    IF p1 = None \/ p2 = None THEN FALSE
    ELSE IF DaySet(p1) \cap DaySet(p2) = {} THEN FALSE
    ELSE p1.startTime < p2.endTime

\* ParsedConflict with closed intervals
ParsedConflictClosed(p1, p2) ==
    IF p1 = None \/ p2 = None THEN FALSE
    ELSE IF DaySet(p1) \cap DaySet(p2) = {} THEN FALSE
    ELSE p1.startTime <= p2.endTime /\ p2.startTime <= p1.endTime

\* has_conflict on the two parsed schedules
ParsedConflict(p1, p2) ==
    IF p1 = None \/ p2 = None THEN FALSE
    ELSE IF DaySet(p1) \cap DaySet(p2) = {} THEN FALSE
    ELSE p1.startTime < p2.endTime /\ p2.startTime < p1.endTime

has_conflict(s1, s2) == ParsedConflict(ParsedOf(s1), ParsedOf(s2))

\* ------------------------------------------------- the CP-SAT comparator

\* _has_time_conflict with an overlap that includes a shared end point
_has_time_conflict_closed(parsed_schedule_a, parsed_schedule_b) ==
    IF DaySet(parsed_schedule_a) \cap DaySet(parsed_schedule_b) = {} THEN FALSE
    ELSE /\ parsed_schedule_a.startTime <= parsed_schedule_b.endTime
         /\ parsed_schedule_a.endTime >= parsed_schedule_b.startTime

\* _has_time_conflict: no common day, no conflict; else the times overlap
_has_time_conflict(parsed_schedule_a, parsed_schedule_b) ==
    IF DaySet(parsed_schedule_a) \cap DaySet(parsed_schedule_b) = {} THEN FALSE
    ELSE /\ parsed_schedule_a.startTime < parsed_schedule_b.endTime
         /\ parsed_schedule_a.endTime > parsed_schedule_b.startTime

\* selection_vars: one Boolean variable per section of each course
selection_vars(problem) ==
    UNION {{<<c, k>> : k \in 1..Len(problem[c])} : c \in 1..Len(problem)}

\* the assignments that satisfy the model solve_with_cpsat builds: each course
\* has exactly one section selected, and two sections of different courses
\* that conflict are not both selected
CpModel(problem) ==
    {x \in [selection_vars(problem) -> {0, 1}] :
        /\ \A c \in 1..Len(problem) :
               Cardinality({k \in 1..Len(problem[c]) : x[<<c, k>>] = 1}) = 1
        /\ \A i, j \in 1..Len(problem) : i < j =>
               \A sec_i \in 1..Len(problem[i]), sec_j \in 1..Len(problem[j]) :
                   _has_time_conflict(Parse(problem[i][sec_i].schedule),
                                      Parse(problem[j][sec_j].schedule))
                       => x[<<i, sec_i>>] + x[<<j, sec_j>>] <= 1}

\* solve_with_cpsat(problem)['feasible'] when the solver finishes in its time
\* limit: a section that does not parse makes the problem infeasible
solve_with_cpsat(problem) ==
    IF \E c \in 1..Len(problem) : \E k \in 1..Len(problem[c]) :
           Parse(problem[c][k].schedule) = None
    THEN FALSE
    ELSE CpModel(problem) # {}

\* ------------------------------------------------------------ generation

RECURSIVE CountFull(_)
CountFull(sections) ==
    IF Len(sections) = 0 THEN 0
    ELSE (IF is_full(Head(sections)) THEN 1 ELSE 0) + CountFull(Tail(sections))

RECURSIVE DropNone(_)
DropNone(ps) ==
    IF Len(ps) = 0 THEN << >>
    ELSE IF Head(ps) = None THEN DropNone(Tail(ps))
    ELSE <<Head(ps)>> \o DropNone(Tail(ps))

\* the smaller of the two end times in place of the greater
Smaller(a, b) == IF a >= b THEN b ELSE a

\* max((p['endTime'] for p in parsed_list), default=0)
Greater(a, b) == IF a >= b THEN a ELSE b

RECURSIVE MaxEnd(_)
MaxEnd(ps) ==
    IF Len(ps) = 0 THEN 0
    ELSE IF Len(ps) = 1 THEN ps[1].endTime
    ELSE Greater(ps[1].endTime, MaxEnd(Tail(ps)))

NoonText == <<"1", "2", ":", "0", "0">>

\* the record built from the values create_schedule_object computes
GeneratedSchedule(sections, parsed_list, full_count, latest_end, preferred_end, noon_minutes) ==
    [selections |-> sections,
     parsed |-> parsed_list,
     meta |-> [fullCount |-> full_count,
               endsByPreferred |-> latest_end <= preferred_end,
               hasLate |-> \E k \in 1..Len(parsed_list) :
                               parsed_list[k].startTime >= noon_minutes,
               latestEnd |-> latest_end]]

ScheduleOfParsed(sections, parsed_list, cons) ==
    GeneratedSchedule(sections, parsed_list, CountFull(sections), MaxEnd(parsed_list),
                      time_to_minutes(cons.latestEnd), time_to_minutes(NoonText))

create_schedule_object(sections, cons) ==
    ScheduleOfParsed(sections,
                     DropNone([k \in 1..Len(sections) |-> ParsedOf(sections[k])]),
                     cons)

\* ScheduleGenerator._create_schedule_object: get_parsed_schedule parses the
\* schedule text of each section; the rest is the same computation
ScheduleGenerator_create_schedule_object(sections, cons) ==
    ScheduleOfParsed(sections,
                     DropNone([k \in 1..Len(sections) |-> Parse(sections[k].schedule)]),
                     cons)

\* results[:max_schedules]: a negative bound counts from the end of the list
Prefix(res, n) ==
    IF n >= 0 THEN SubSeq(res, 1, IF n <= Len(res) THEN n ELSE Len(res))
    ELSE SubSeq(res, 1, IF Len(res) + n >= 0 THEN Len(res) + n ELSE 0)

RECURSIVE ScheduleGenerator_backtrack(_, _, _, _, _, _)
RECURSIVE ScheduleGenerator_loop(_, _, _, _, _, _, _)

\* ScheduleGenerator._backtrack without the current.pop() after the recursive call
ScheduleGenerator_loop_no_pop(sections, cons, index, k, current, res, viable_sections) ==
    IF k > Len(viable_sections[index + 1]) THEN [current |-> current, results |-> res]
    ELSE IF \E j \in 1..Len(current) :
                has_conflict(viable_sections[index + 1][k], current[j])
    THEN ScheduleGenerator_loop(sections, cons, index, k + 1, current, res, viable_sections)
    ELSE LET r == ScheduleGenerator_backtrack(
                      sections, cons, index + 1,
                      Append(current, viable_sections[index + 1][k]), res, viable_sections)
         IN  ScheduleGenerator_loop(sections, cons, index, k + 1,
                                    r.current, r.results, viable_sections)

\* ScheduleGenerator._backtrack from the k-th section of viable_sections[index]
\* on: ConflictDetector.has_conflict against each selected section, then
\* current.append(section), the recursive call and current.pop(); current and
\* results are the two lists the calls share, as the loop leaves them
ScheduleGenerator_loop(sections, cons, index, k, current, res, viable_sections) ==
    IF k > Len(viable_sections[index + 1]) THEN [current |-> current, results |-> res]
    ELSE IF \E j \in 1..Len(current) :
                has_conflict(viable_sections[index + 1][k], current[j])
    THEN ScheduleGenerator_loop(sections, cons, index, k + 1, current, res, viable_sections)
    ELSE LET r == ScheduleGenerator_backtrack(
                      sections, cons, index + 1,
                      Append(current, viable_sections[index + 1][k]), res, viable_sections)
         IN  ScheduleGenerator_loop(sections, cons, index, k + 1,
                                    SubSeq(r.current, 1, Len(r.current) - 1), r.results,
                                    viable_sections)

\* ScheduleGenerator._backtrack(index, current, results, viable_sections)
ScheduleGenerator_backtrack(sections, cons, index, current, res, viable_sections) ==
    IF Len(res) >= Get(cons, "maxSchedules", 50)
    THEN [current |-> current, results |-> res]
    ELSE IF index >= Len(sections)
    THEN IF CountFull(current) <= Get(cons, "maxFullPerSchedule", 1)
         THEN [current |-> current,
               results |-> Append(res, ScheduleGenerator_create_schedule_object(current, cons))]
         ELSE [current |-> current, results |-> res]
    ELSE ScheduleGenerator_loop(sections, cons, index, 1, current, res, viable_sections)

\* viable_sections as ScheduleGenerator.generate collects them
ScheduleGenerator_viable(sections, cons) ==
    [c \in 1..Len(sections) |->
        SelectSeq(sections[c], LAMBDA section : Section_is_viable(section, cons))]

\* ScheduleGenerator(sections, constraints).generate()
ScheduleGenerator_generate(sections, cons) ==
    IF \E c \in 1..Len(sections) : Len(ScheduleGenerator_viable(sections, cons)[c]) = 0
    THEN << >>
    ELSE Prefix(ScheduleGenerator_backtrack(sections, cons, 0, << >>, << >>,
                                            ScheduleGenerator_viable(sections, cons)).results,
                Get(cons, "maxSchedules", 50))

\* Statistics.__init__ (the counters; the clock is read at get_stats)
Statistics ==
    [nodes_explored |-> 0,
     valid_schedules |-> 0,
     pruned_by_conflict |-> 0,
     pruned_by_viability |-> 0,
     pruned_by_full |-> 0]

\* increment_node counting a call twice
increment_node_twice(st) == [st EXCEPT !.nodes_explored = @ + 2]

increment_node(st) == [st EXCEPT !.nodes_explored = @ + 1]

\* increment_valid_schedules counting every schedule twice
increment_valid_schedules_twice(st) == [st EXCEPT !.valid_schedules = @ + 2]

increment_valid_schedules(st) == [st EXCEPT !.valid_schedules = @ + 1]

increment_pruned_conflict(st) == [st EXCEPT !.pruned_by_conflict = @ + 1]

\* increment_pruned_viability that leaves the counter as it is
increment_pruned_viability_lost(st) == st

increment_pruned_viability(st) == [st EXCEPT !.pruned_by_viability = @ + 1]

increment_pruned_full(st) == [st EXCEPT !.pruned_by_full = @ + 1]

\* Statistics.get_stats: the counters and the elapsed time read off the clock
get_stats(st, elapsed) ==
    [nodes_explored |-> st.nodes_explored,
     valid_schedules |-> st.valid_schedules,
     pruned_by_conflict |-> st.pruned_by_conflict,
     pruned_by_viability |-> st.pruned_by_viability,
     pruned_by_full |-> st.pruned_by_full,
     execution_time_ms |-> elapsed]

\* ----------------------------------------------------------------- tracing
\* The tracer is [enabled, traces]; a trace entry is the tuple of the tag and of
\* the values its message interpolates, in the order of the message.

\* Tracing(enabled): self.enabled = enabled; self.traces = []
Tracing(enabled) == [enabled |-> enabled, traces |-> << >>]

\* "[TRY] Course {course_idx}: Group {section.group} - {section.schedule}"
log_try(tr, course_idx, section) ==
    IF tr.enabled
    THEN [tr EXCEPT !.traces =
              Append(@, <<"[TRY]", course_idx, section.group, section.schedule>>)]
    ELSE tr

\* "[PRUNE] {reason}: {detail}", the detail given as the values it interpolates
log_prune(tr, reason, detail) ==
    IF tr.enabled
    THEN [tr EXCEPT !.traces = Append(@, <<"[PRUNE]", reason>> \o detail)]
    ELSE tr

\* "[VALID] Schedule {schedule_idx} found"
log_valid_schedule(tr, schedule_idx) ==
    IF tr.enabled
    THEN [tr EXCEPT !.traces = Append(@, <<"[VALID]", schedule_idx>>)]
    ELSE tr

\* The inner loop of the pre-filter over the sections of course course_idx (counted
\* from 0), from position i: the viable sections re-created with their parsed
\* schedule attached, the statistics with one pruned_by_viability and the tracer
\* with one VIABILITY entry per section skipped.
\* WithParsed with the status written as a literal instead of s.status
WithParsedStatusLost(s, parsed) ==
    [group |-> s.group, schedule |-> s.schedule, enrolled |-> s.enrolled,
     status |-> "OK", parsed_schedule |-> parsed]

\* Section(s.group, s.schedule, s.enrolled, s.status, parsed)
WithParsed(s, parsed) ==
    [group |-> s.group, schedule |-> s.schedule, enrolled |-> s.enrolled,
     status |-> s.status, parsed_schedule |-> parsed]

RECURSIVE FilterCourse(_, _, _, _, _, _, _)
FilterCourse(sections, course_idx, i, cons, viable, st, tr) ==
    IF i > Len(sections) THEN [viable |-> viable, stats |-> st, tracer |-> tr]
    ELSE IF is_viable(sections[i], cons)
         THEN FilterCourse(sections, course_idx, i + 1, cons,
                  Append(viable, WithParsed(sections[i], Parse(sections[i].schedule))),
                  st, tr)
         ELSE FilterCourse(sections, course_idx, i + 1, cons, viable,
                  increment_pruned_viability(st),
                  log_prune(tr, "VIABILITY", <<course_idx, sections[i].group>>))

\* The pre-filter pass from course course_idx on: it stops at the first course
\* that keeps no section (empty = TRUE), with the statistics accumulated so far.
RECURSIVE PreFilterNoStop(_, _, _, _, _, _)
\* PreFilterNext without the return at a course that keeps no section
PreFilterNextNoStop(courses, course_idx, cons, viable_acc, f) ==
    PreFilterNoStop(courses, course_idx + 1, cons,
                    Append(viable_acc, f.viable), f.stats, f.tracer)

PreFilterNoStop(courses, course_idx, cons, viable_acc, st, tr) ==
    IF course_idx > Len(courses)
    THEN [empty |-> FALSE, viable_lists |-> viable_acc, stats |-> st, tracer |-> tr]
    ELSE PreFilterNextNoStop(courses, course_idx, cons, viable_acc,
             FilterCourse(courses[course_idx], course_idx - 1, 1, cons, << >>, st, tr))

RECURSIVE PreFilter(_, _, _, _, _, _)
\* the outer loop once course course_idx is filtered to f
PreFilterNext(courses, course_idx, cons, viable_acc, f) ==
    IF Len(f.viable) = 0
    THEN [empty |-> TRUE, viable_lists |-> viable_acc, stats |-> f.stats,
          tracer |-> f.tracer]
    ELSE PreFilter(courses, course_idx + 1, cons,
                   Append(viable_acc, f.viable), f.stats, f.tracer)

PreFilter(courses, course_idx, cons, viable_acc, st, tr) ==
    IF course_idx > Len(courses)
    THEN [empty |-> FALSE, viable_lists |-> viable_acc, stats |-> st, tracer |-> tr]
    ELSE PreFilterNext(courses, course_idx, cons, viable_acc,
             FilterCourse(courses[course_idx], course_idx - 1, 1, cons, << >>, st, tr))

\* ----------------------------------------------------------------- bounds

MaxCourses == 2

MaxSections == 2

MaxSchedules == 2

\* the readings of the clock at get_stats, as elapsed milliseconds
ClockReadings == {0, 1}

\* ----------------------------------------------------------------- inputs

Section(group, schedule, enrolled, status) ==
    [group |-> group, schedule |-> schedule, enrolled |-> enrolled, status |-> status,
     parsed_schedule |-> None]

\* The sections a caller may supply, as the callers build them (four fields,
\* no parsed schedule): an ordinary one, a full one that overlaps it, an
\* at-risk one on other days, one whose schedule text does not parse, and one
\* that starts when the first ends and overlaps the second.
Catalogue ==
    << Section(1, MW_0900_1030, <<"1", "5", "/", "3", "0">>, "OK"),
       Section(2, MW_1000_1130, <<"3", "0", "/", "3", "0">>, "FULL"),
       Section(3, TTh_0900_1030, <<"0", "/", "3", "0">>, "AT-RISK"),
       Section(4, InvalidString, <<"1", "5", "/", "3", "0">>, "OK"),
       Section(5, MW_1030_1200, <<"2", "5", "/", "3", "0">>, "OK") >>

\* the sections of the catalogue from position k on that the assignment a gives
\* to course c, in catalogue order
RECURSIVE Offered(_, _, _)
Offered(a, c, k) ==
    IF k > Len(Catalogue) THEN << >>
    ELSE IF a[k] = c THEN <<Catalogue[k]>> \o Offered(a, c, k + 1)
    ELSE Offered(a, c, k + 1)

\* n courses: every section of the catalogue is offered by one course or by
\* none, and no course offers more than MaxSections
CourseListsOf(n) ==
    {cs \in {[c \in 1..n |-> Offered(a, c, 1)] : a \in [1..Len(Catalogue) -> 0..n]} :
        \A c \in 1..n : Len(cs[c]) <= MaxSections}

CourseLists == UNION {CourseListsOf(n) : n \in 0..MaxCourses}

EarliestStartText == <<"0", "8", ":", "0", "0">>

LatestEndText == <<"1", "8", ":", "0", "0">>

\* is_viable on the sections of the catalogue, evaluated once per section and
\* pair of allowFull and allowAt_risk
ViableTable ==
    [g \in 1..Len(Catalogue) |-> [full \in BOOLEAN |-> [at_risk \in BOOLEAN |->
        is_viable(Catalogue[g], [earliestStart |-> EarliestStartText,
                                 latestEnd |-> LatestEndText,
                                 allowFull |-> full,
                                 allowAt_risk |-> at_risk])]]]

\* maxSchedules: a negative value, zero and the positive values up to the bound
MaxSchedulesValues == {-1} \cup (0..MaxSchedules)

ConstraintsSet ==
    [earliestStart : {EarliestStartText},
     latestEnd : {LatestEndText},
     allowFull : BOOLEAN,
     allowAt_risk : BOOLEAN,
     maxSchedules : MaxSchedulesValues,
     maxFullPerSchedule : {0, 1}]

\* ------------------------------------------------------------------ state

VARIABLES
    course_sections,    \* the caller's course lists
    constraints,        \* the caller's constraints
    enable_tracing,     \* the caller's enable_tracing argument
    pc,                 \* "idle": not yet called, "search": inside backtrack, "done": returned
    viable_lists,       \* the pre-filtered lists
    results,            \* the result list being built
    stats,              \* the Statistics object of the call
    tracer,             \* the Tracing object of the call
    stack,              \* the frames of backtrack, innermost last
    tried,              \* number of candidates tried so far (the log_try calls)
    ret,                \* what the call returned, or None
    run,                \* ordinal of the current call
    first,              \* what the previous call returned, or None
    arg,                \* the arguments of a direct call of one of the functions
    out                 \* what that call returned, or None

inputVars == <<course_sections, constraints, enable_tracing>>

callVars == <<run, first>>

pureVars == <<arg, out>>

vars == <<course_sections, constraints, enable_tracing, pc, viable_lists, results,
          stats, tracer, stack, tried, ret, run, first, arg, out>>

Frame(step, current_selection) ==
    [step |-> step, current_selection |-> current_selection, at |-> "entry", i |-> 0]

Top == stack[Len(stack)]

Pop == SubSeq(stack, 1, Len(stack) - 1)

max_schedules == constraints.maxSchedules

\* max_full one above the constraint
max_full_one_more == constraints.maxFullPerSchedule + 1

max_full == constraints.maxFullPerSchedule

NoArg == [op |-> "none"]

Init ==
    /\ course_sections \in CourseLists
    /\ constraints \in ConstraintsSet
    /\ enable_tracing = FALSE
    /\ pc = "idle"
    /\ viable_lists = None
    /\ results = None
    /\ stats = None
    /\ tracer = None
    /\ stack = << >>
    /\ tried = 0
    /\ ret = None
    /\ run = 1
    /\ first = None
    /\ arg = NoArg
    /\ out = None

\* generate_schedules, the pre-filter finds a course without a viable section:
\* return [], stats.get_stats()
CallShortCircuit ==
    /\ pc = "idle"
    /\ \E f \in {PreFilter(course_sections, 1, constraints, << >>, Statistics,
                            Tracing(enable_tracing))} :
           /\ f.empty
           /\ viable_lists' = f.viable_lists
           /\ stats' = f.stats
           /\ tracer' = f.tracer
           /\ \E elapsed \in ClockReadings :
                  ret' = [results |-> << >>, stats |-> get_stats(f.stats, elapsed)]
    /\ results' = None
    /\ stack' = << >>
    /\ tried' = 0
    /\ pc' = "done"
    /\ UNCHANGED <<inputVars, callVars, pureVars>>

\* CallSearch with one Statistics object shared by all the calls
CallSearchSharedStatistics ==
    /\ pc = "idle"
    /\ \E f \in {PreFilter(course_sections, 1, constraints, << >>,
                            IF stats = None THEN Statistics ELSE stats,
                            Tracing(enable_tracing))} :
           /\ ~f.empty
           /\ viable_lists' = f.viable_lists
           /\ stats' = f.stats
           /\ tracer' = f.tracer
    /\ results' = << >>
    /\ stack' = <<Frame(0, << >>)>>
    /\ tried' = 0
    /\ ret' = None
    /\ pc' = "search"
    /\ UNCHANGED <<inputVars, callVars, pureVars>>

\* generate_schedules, every course keeps a section: results = [] and backtrack(0, [])
CallSearch ==
    /\ pc = "idle"
    /\ \E f \in {PreFilter(course_sections, 1, constraints, << >>, Statistics,
                            Tracing(enable_tracing))} :
           /\ ~f.empty
           /\ viable_lists' = f.viable_lists
           /\ stats' = f.stats
           /\ tracer' = f.tracer
    /\ results' = << >>
    /\ stack' = <<Frame(0, << >>)>>
    /\ tried' = 0
    /\ ret' = None
    /\ pc' = "search"
    /\ UNCHANGED <<inputVars, callVars, pureVars>>

AtEntry == pc = "search" /\ Len(stack) > 0 /\ Top.at = "entry"

AtLoop == pc = "search" /\ Len(stack) > 0 /\ Top.at = "loop"

\* CapReached one result early
CapReachedEarly == Len(results) + 1 >= max_schedules

\* CapReached one result late
CapReachedLate == Len(results) > max_schedules

\* len(results) >= max_schedules
CapReached == Len(results) >= max_schedules

\* step == len(viable_lists)
AtLeaf == Top.step = Len(viable_lists)

\* backtrack: increment_node, then the cap is reached: return
EnterCapReached ==
    /\ AtEntry
    /\ CapReached
    /\ stats' = increment_node(stats)
    /\ stack' = Pop
    /\ UNCHANGED <<inputVars, callVars, pureVars, pc, viable_lists, results, tracer,
                   tried, ret>>

\* backtrack at a completed assignment within the full-section cap: append it
EnterLeafValid ==
    /\ AtEntry
    /\ ~CapReached
    /\ AtLeaf
    /\ CountFull(Top.current_selection) <= max_full
    /\ results' = Append(results, create_schedule_object(Top.current_selection, constraints))
    /\ stats' = increment_valid_schedules(increment_node(stats))
    /\ tracer' = log_valid_schedule(tracer, Len(results'))
    /\ stack' = Pop
    /\ UNCHANGED <<inputVars, callVars, pureVars, pc, viable_lists, tried, ret>>

\* backtrack at a completed assignment with too many full sections: discard it
EnterLeafTooFull ==
    /\ AtEntry
    /\ ~CapReached
    /\ AtLeaf
    /\ CountFull(Top.current_selection) > max_full
    /\ stats' = increment_pruned_full(increment_node(stats))
    /\ tracer' = log_prune(tracer, "FULL_LIMIT",
                           <<CountFull(Top.current_selection), max_full>>)
    /\ stack' = Pop
    /\ UNCHANGED <<inputVars, callVars, pureVars, pc, viable_lists, results, tried, ret>>

\* backtrack at an inner frame: start the loop over viable_lists[step]
EnterLoop ==
    /\ AtEntry
    /\ ~CapReached
    /\ ~AtLeaf
    /\ stats' = increment_node(stats)
    /\ stack' = [stack EXCEPT ![Len(stack)].at = "loop", ![Len(stack)].i = 1]
    /\ UNCHANGED <<inputVars, callVars, pureVars, pc, viable_lists, results, tracer,
                   tried, ret>>

\* Candidate with the list of the course read from its end
CandidateFromEnd ==
    viable_lists[Top.step + 1][Len(viable_lists[Top.step + 1]) + 1 - Top.i]

\* section, the loop variable of "for section in viable_lists[step]"
Candidate == viable_lists[Top.step + 1][Top.i]

\* Conflicts with the first selection left out of the comparison
ConflictsAfterFirst(section, current_selection) ==
    \E k \in 2..Len(current_selection) : has_conflict(section, current_selection[k])

\* Conflicts with the full-section cap tested on the partial selection as well
ConflictsOrTooFull(section, current_selection) ==
    \/ \E k \in 1..Len(current_selection) : has_conflict(section, current_selection[k])
    \/ CountFull(Append(current_selection, section)) > constraints.maxFullPerSchedule

\* any(has_conflict(section, s) for s in current_selection)
Conflicts(section, current_selection) ==
    \E k \in 1..Len(current_selection) : has_conflict(section, current_selection[k])

\* TryConflict with the statistics update placed under the tracer's enabled test
TryConflictCountedWhenTraced ==
    /\ AtLoop
    /\ Top.i <= Len(viable_lists[Top.step + 1])
    /\ Conflicts(Candidate, Top.current_selection)
    /\ tried' = tried + 1
    /\ stats' = IF tracer.enabled THEN increment_pruned_conflict(stats) ELSE stats
    /\ tracer' = log_prune(log_try(tracer, Top.step, Candidate), "CONFLICT",
                           <<Top.step, Candidate.group>>)
    /\ stack' = [stack EXCEPT ![Len(stack)].i = @ + 1]
    /\ UNCHANGED <<inputVars, callVars, pureVars, pc, viable_lists, results, ret>>

\* one iteration of the loop, the candidate conflicts: count it and go on
TryConflict ==
    /\ AtLoop
    /\ Top.i <= Len(viable_lists[Top.step + 1])
    /\ Conflicts(Candidate, Top.current_selection)
    /\ tried' = tried + 1
    /\ stats' = increment_pruned_conflict(stats)
    /\ tracer' = log_prune(log_try(tracer, Top.step, Candidate), "CONFLICT",
                           <<Top.step, Candidate.group>>)
    /\ stack' = [stack EXCEPT ![Len(stack)].i = @ + 1]
    /\ UNCHANGED <<inputVars, callVars, pureVars, pc, viable_lists, results, ret>>

\* one iteration of the loop, no conflict: backtrack(step + 1, current_selection + [section])
TryDescend ==
    /\ AtLoop
    /\ Top.i <= Len(viable_lists[Top.step + 1])
    /\ ~Conflicts(Candidate, Top.current_selection)
    /\ tried' = tried + 1
    /\ tracer' = log_try(tracer, Top.step, Candidate)
    /\ stack' = Append([stack EXCEPT ![Len(stack)].i = @ + 1],
                       Frame(Top.step + 1, Append(Top.current_selection, Candidate)))
    /\ UNCHANGED <<inputVars, callVars, pureVars, pc, viable_lists, results, stats, ret>>

\* the loop has run through viable_lists[step]: the frame returns
LoopExhausted ==
    /\ AtLoop
    /\ Top.i > Len(viable_lists[Top.step + 1])
    /\ stack' = Pop
    /\ UNCHANGED <<inputVars, callVars, pureVars, pc, viable_lists, results, stats,
                   tracer, tried, ret>>

\* Return that calls generate_schedules afresh in place of returning
ReturnCallsAgain ==
    /\ pc = "search"
    /\ Len(stack) = 0
    /\ \E elapsed \in ClockReadings :
           ret' = [results |-> results, stats |-> get_stats(stats, elapsed)]
    /\ pc' = "idle"
    /\ UNCHANGED <<inputVars, callVars, pureVars, viable_lists, results, stats, tracer,
                   stack, tried>>

\* backtrack(0, []) has returned: return results, stats.get_stats()
Return ==
    /\ pc = "search"
    /\ Len(stack) = 0
    /\ \E elapsed \in ClockReadings :
           ret' = [results |-> results, stats |-> get_stats(stats, elapsed)]
    /\ pc' = "done"
    /\ UNCHANGED <<inputVars, callVars, pureVars, viable_lists, results, stats, tracer,
                   stack, tried>>

Next ==
    \/ CallShortCircuit
    \/ CallSearch
    \/ EnterCapReached
    \/ EnterLeafValid
    \/ EnterLeafTooFull
    \/ EnterLoop
    \/ TryConflict
    \/ TryDescend
    \/ LoopExhausted
    \/ Return

Spec == Init /\ [][Next]_vars

\* The call runs on the calling thread without a suspension point: while a
\* step of it is possible, a step is taken.  This is WF_vars(Next) with
\* ENABLED <<Next>>_vars written out: a step is possible in every state but
\* those in which the call has returned.  WF_vars(Return) follows from it.
SpecFair == Spec /\ WF_vars(Return) /\ ([]<>(pc = "done") \/ []<><<Next>>_vars)

\* ------------------------------------------------------- two calls in a row

\* The caller keeps what the call returned and calls generate_schedules again
\* with the same course lists and constraints.  What the first call left
\* behind stays where it is: the second call has to set up its own state.
CallAgain ==
    /\ pc = "done"
    /\ run = 1
    /\ first' = ret
    /\ run' = 2
    /\ pc' = "idle"
    /\ UNCHANGED <<inputVars, pureVars, viable_lists, results, stats, tracer, stack,
                   tried, ret>>

NextTwice == Next \/ CallAgain

SpecTwice == Init /\ [][NextTwice]_vars

\* The caller keeps what the call without tracing returned and calls
\* generate_schedules on the same course lists and constraints with
\* enable_tracing=True.
CallAgainTraced ==
    /\ pc = "done"
    /\ run = 1
    /\ first' = ret
    /\ run' = 2
    /\ enable_tracing' = TRUE
    /\ pc' = "idle"
    /\ UNCHANGED <<course_sections, constraints, pureVars, viable_lists, results, stats,
                   tracer, stack, tried, ret>>

NextTraced == Next \/ CallAgainTraced

SpecTraced == Init /\ [][NextTraced]_vars

\* ------------------------------------------- the functions called directly

\* Sections on which the helpers are called: as a caller builds them and, for
\* those whose schedule parses, as the pre-filter re-creates them.
DirectSections ==
    LET built == {Catalogue[k] : k \in 1..Len(Catalogue)}
                 \cup {Section(6, T_0900_1030, <<"1", "0", "/", "3", "0">>, "OK"),
                       Section(7, Th_1000_1100, <<"1", "0", "/", "3", "0">>, "OK"),
                       Section(8, MW_1200_0130, <<"1", "0", "/", "3", "0">>, "OK"),
                       Section(9, MWF_0930_1000, <<"1", "0", "/", "3", "0">>, "OK")}
    IN  built \cup {WithParsed(s, Parse(s.schedule)) : s \in {t \in built : Parse(t.schedule) # None}}

HasConflictCalls == [op : {"has_conflict"}, a : DirectSections, b : DirectSections]

\* Schedule texts as the callers write them:
\* f"{day_pattern} {start_12h:02d}:00 {start_ampm} - {end_12h:02d}:00 {end_ampm}"
TwoDigits(n) == <<DigitChars[(n \div 10) + 1], DigitChars[(n % 10) + 1]>>

\* a number below 100 as a text: with one digit or two below 10, with two from 10
NumberTexts(n) ==
    IF n < 10 THEN {<<DigitChars[n + 1]>>, TwoDigits(n)} ELSE {TwoDigits(n)}

TimeText(hour, minute, gap, ampm) == hour \o <<":">> \o minute \o gap \o ampm

RangeText(days, t1, before, after, t2) ==
    days \o <<" ">> \o t1 \o before \o <<"-">> \o after \o t2

\* times whose hour and minute fields match \d{1,2} and \d{2}, within and
\* beyond the 12-hour clock
NumericTimes ==
    {TimeText(h, m, <<" ">>, a) :
        h \in {<<"0">>, <<"9">>, <<"1", "2">>, <<"1", "3">>, <<"2", "3">>, <<"9", "9">>},
        m \in {<<"0", "0">>, <<"5", "9">>, <<"6", "0">>, <<"9", "9">>},
        a \in {<<"A", "M">>, <<"P", "M">>}}

NumericTexts ==
    {RangeText(<<"M">>, t1, <<" ">>, <<" ">>, t2) : t1 \in NumericTimes, t2 \in NumericTimes}

\* day runs: the patterns of the generator and the tests, runs with Saturday
\* and Sunday, and runs with a character that is no day symbol
DayRuns ==
    {<<"M", "W">>, <<"T", "T", "h">>, <<"M", "W", "F">>, <<"T">>, <<"T", "h">>,
     <<"T", "h", "T">>, <<"M", "T", "h", "S">>, <<"S">>, <<"S", "u">>,
     <<"M", "X", "W">>, <<"h", "T">>}

DayRunTexts ==
    {RangeText(d, TimeText(<<"1", "0">>, <<"0", "0">>, <<" ">>, <<"A", "M">>),
               <<" ">>, <<" ">>,
               TimeText(<<"1", "1">>, <<"3", "0">>, <<" ">>, <<"A", "M">>)) : d \in DayRuns}

TTh_0100_0300 == <<"T", "T", "h", " ", "0", "1", ":", "0", "0", " ", "P", "M", " ", "-", " ",
                   "0", "3", ":", "0", "0", " ", "P", "M">>

\* 'MW <time> - <time>' with and without the optional whitespace of the
\* time-range pattern (\s* before each meridiem and on either side of the dash)
SpacingTexts ==
    {RangeText(<<"M", "W">>, TimeText(<<"1", "0">>, <<"0", "0">>, g1, <<"A", "M">>), b, a,
               TimeText(<<"1", "1">>, <<"3", "0">>, g2, <<"A", "M">>)) :
        g1 \in {<< >>, <<" ">>}, b \in {<< >>, <<" ">>},
        a \in {<< >>, <<" ">>}, g2 \in {<< >>, <<" ">>}}

\* texts without a time range: the empty text, blanks, a lone day run, the texts
\* of test_parse_invalid_format, a range without its dash and ranges with a
\* broken meridiem or minute
MalformedTexts ==
    {<< >>, <<" ">>, <<"M", "W">>, InvalidString,
     <<"M", "W", " ", "1", "0", ":", "0", "0", " ", "A", "M">>,
     <<"M", "W", " ", "1", "0", ":", "0", "0", " ", "A", "M", " ",
       "1", "1", ":", "3", "0", " ", "A", "M">>,
     <<"M", "W", " ", "1", "0", ":", "0", "0", " ", "X", "M", " ", "-", " ",
       "1", "1", ":", "3", "0", " ", "A", "M">>,
     <<"M", "W", " ", "1", "0", ":", "0", " ", "A", "M", " ", "-", " ",
       "1", "1", ":", "3", "0", " ", "A", "M">>}

\* parse_schedule_string on these texts and on the texts of test_parse_valid_mw
\* and test_parse_valid_tth
ScheduleStringCalls ==
    [op : {"parse_schedule_string"},
     schedule_string : NumericTexts \cup DayRunTexts \cup {MW_1000_1130, TTh_0100_0300}
                           \cup SpacingTexts \cup MalformedTexts]

\* the ways of writing the meridiem, in either case
MeridiemTexts(pm) ==
    IF pm THEN {<<"P", "M">>, <<"p", "m">>, <<"P", "m">>}
    ELSE {<<"A", "M">>, <<"a", "m">>, <<"a", "M">>}

\* parse_time_to_minutes on every time of the 12-hour clock; hour, minute and pm
\* are the time the text was written from
TimeCalls ==
    UNION {[op : {"parse_time_to_minutes"},
            time_str : {TimeText(ht, TwoDigits(m), gap, mt) :
                            ht \in NumberTexts(h), gap \in {<< >>, <<" ">>},
                            mt \in MeridiemTexts(pm)},
            hour : {h}, minute : {m}, pm : {pm}] :
           h \in 1..12, m \in 0..59, pm \in BOOLEAN}

\* sections with schedules inside the window 08:00 to 18:00, exactly on its two
\* bounds, one minute before it, one minute after it, and one that does not
\* parse, with enrolment texts that are full, at risk, both, neither, and
\* without the pattern
WindowSections ==
    {Section(1, t, e, "OK") :
      t \in {MW_0900_1030,
            RangeText(<<"M", "W">>, TimeText(<<"0", "8">>, <<"0", "0">>, <<" ">>, <<"A", "M">>),
                      <<" ">>, <<" ">>,
                      TimeText(<<"0", "6">>, <<"0", "0">>, <<" ">>, <<"P", "M">>)),
            RangeText(<<"M", "W">>, TimeText(<<"0", "7">>, <<"5", "9">>, <<" ">>, <<"A", "M">>),
                      <<" ">>, <<" ">>,
                      TimeText(<<"0", "9">>, <<"0", "0">>, <<" ">>, <<"A", "M">>)),
            RangeText(<<"M", "W">>, TimeText(<<"0", "5">>, <<"0", "0">>, <<" ">>, <<"P", "M">>),
                      <<" ">>, <<" ">>,
                      TimeText(<<"0", "6">>, <<"0", "1">>, <<" ">>, <<"P", "M">>)),
            InvalidString},
      e \in {<<"3", "0", "/", "3", "0">>, <<"0", "/", "3", "0">>, <<"0", "/", "0">>,
             <<"1", "5", "/", "3", "0">>, <<"n", "/", "a">>}}

\* is_viable of the functional engine, under constraints with its keys
IsViableCalls ==
    [op : {"is_viable"}, section : WindowSections,
     constraints : [earliestStart : {EarliestStartText}, latestEnd : {LatestEndText},
                    allowFull : BOOLEAN, allowAt_risk : BOOLEAN]]

\* Section.is_viable of the class-based engine, under constraints with its keys
SectionIsViableCalls ==
    [op : {"Section.is_viable"}, section : WindowSections,
     constraints : [earliestStart : {EarliestStartText}, latestEnd : {LatestEndText},
                    allowFull : BOOLEAN, allowAtRisk : BOOLEAN]]

EnrolledCurrents == 0..31

EnrolledTotals == {0, 1, 2, 9, 10, 11, 19, 20, 21, 30}

\* texts without the pattern digits/digits
UnmatchedEnrolled ==
    {<< >>, <<"n", "/", "a">>, <<"3", "0">>, <<"3", "0", "/">>, <<"/", "3", "0">>,
     <<"3", "0", "-", "3", "0">>, <<"3", "0", " ", "/", " ", "3", "0">>}

\* is_full and is_at_risk on sections enrolled current/total (current and total
\* are the counts the text was written from) and on texts without the pattern
\* (matches = FALSE)
EnrolledCalls ==
    UNION {[op : {"is_full", "is_at_risk"},
            section : {Section(1, MW_1000_1130, c \o <<"/">> \o t, "OK") :
                           c \in NumberTexts(current), t \in NumberTexts(total)},
            matches : {TRUE}, current : {current}, total : {total}] :
           current \in EnrolledCurrents, total \in EnrolledTotals}
    \cup [op : {"is_full", "is_at_risk"},
          section : {Section(1, MW_1000_1130, e, "OK") : e \in UnmatchedEnrolled},
          matches : {FALSE}, current : {0}, total : {0}]

\* the constraints of a direct call: the latest end is the usual one or 11:00,
\* which some of the sections overrun
ObjectConstraints ==
    [earliestStart : {EarliestStartText},
     latestEnd : {LatestEndText, <<"1", "1", ":", "0", "0">>},
     allowFull : {TRUE},
     allowAt_risk : {TRUE},
     maxSchedules : {MaxSchedules},
     maxFullPerSchedule : {1}]

\* create_schedule_object on every list of at most MaxSections sections, and
\* ScheduleGenerator._create_schedule_object on the lists of sections as built
CreateScheduleObjectCalls ==
    [op : {"create_schedule_object"},
     sections : UNION {[1..n -> DirectSections] : n \in 0..MaxSections},
     constraints : ObjectConstraints]
    \cup
    [op : {"_create_schedule_object"},
     sections : UNION {[1..n -> {s \in DirectSections : s.parsed_schedule = None}] :
                          n \in 0..MaxSections},
     constraints : ObjectConstraints]

FunctionCalls ==
    HasConflictCalls \cup ScheduleStringCalls \cup TimeCalls \cup IsViableCalls
        \cup SectionIsViableCalls \cup EnrolledCalls \cup CreateScheduleObjectCalls

\* no call of generate_schedules is under way; one helper is about to be called
InitFunctions ==
    /\ course_sections = << >>
    /\ constraints = [earliestStart |-> EarliestStartText,
                      latestEnd |-> LatestEndText,
                      allowFull |-> FALSE,
                      allowAt_risk |-> FALSE,
                      maxSchedules |-> MaxSchedules,
                      maxFullPerSchedule |-> 1]
    /\ enable_tracing = FALSE
    /\ pc = "idle"
    /\ viable_lists = None
    /\ results = None
    /\ stats = None
    /\ tracer = None
    /\ stack = << >>
    /\ tried = 0
    /\ ret = None
    /\ run = 1
    /\ first = None
    /\ arg \in FunctionCalls
    /\ out = None

\* has_conflict(arg.a, arg.b) returns
CallHasConflict ==
    /\ arg.op = "has_conflict"
    /\ out = None
    /\ out' = [value |-> has_conflict(arg.a, arg.b)]
    /\ UNCHANGED <<inputVars, callVars, pc, viable_lists, results, stats, tracer, stack,
                   tried, ret, arg>>

\* parse_schedule_string(arg.schedule_string) returns
CallParseScheduleString ==
    /\ arg.op = "parse_schedule_string"
    /\ out = None
    /\ out' = [value |-> parse_schedule_string(arg.schedule_string)]
    /\ UNCHANGED <<inputVars, callVars, pc, viable_lists, results, stats, tracer, stack,
                   tried, ret, arg>>

\* parse_time_to_minutes(arg.time_str) returns
CallParseTimeToMinutes ==
    /\ arg.op = "parse_time_to_minutes"
    /\ out = None
    /\ out' = [value |-> parse_time_to_minutes(arg.time_str)]
    /\ UNCHANGED <<inputVars, callVars, pc, viable_lists, results, stats, tracer, stack,
                   tried, ret, arg>>

\* is_viable(arg.section, arg.constraints) returns
CallIsViable ==
    /\ arg.op = "is_viable"
    /\ out = None
    /\ out' = [value |-> is_viable(arg.section, arg.constraints)]
    /\ UNCHANGED <<inputVars, callVars, pc, viable_lists, results, stats, tracer, stack,
                   tried, ret, arg>>

\* arg.section.is_viable(arg.constraints) of the class-based engine returns
CallSectionIsViable ==
    /\ arg.op = "Section.is_viable"
    /\ out = None
    /\ out' = [value |-> Section_is_viable(arg.section, arg.constraints)]
    /\ UNCHANGED <<inputVars, callVars, pc, viable_lists, results, stats, tracer, stack,
                   tried, ret, arg>>

\* is_full(arg.section) returns
CallIsFull ==
    /\ arg.op = "is_full"
    /\ out = None
    /\ out' = [value |-> is_full(arg.section)]
    /\ UNCHANGED <<inputVars, callVars, pc, viable_lists, results, stats, tracer, stack,
                   tried, ret, arg>>

\* is_at_risk(arg.section) returns
CallIsAtRisk ==
    /\ arg.op = "is_at_risk"
    /\ out = None
    /\ out' = [value |-> is_at_risk(arg.section)]
    /\ UNCHANGED <<inputVars, callVars, pc, viable_lists, results, stats, tracer, stack,
                   tried, ret, arg>>

\* create_schedule_object(arg.sections, arg.constraints) returns
CallCreateScheduleObject ==
    /\ arg.op = "create_schedule_object"
    /\ out = None
    /\ out' = [value |-> create_schedule_object(arg.sections, arg.constraints)]
    /\ UNCHANGED <<inputVars, callVars, pc, viable_lists, results, stats, tracer, stack,
                   tried, ret, arg>>

\* ScheduleGenerator(arg.constraints)._create_schedule_object(arg.sections) returns
CallGeneratorCreateScheduleObject ==
    /\ arg.op = "_create_schedule_object"
    /\ out = None
    /\ out' = [value |-> ScheduleGenerator_create_schedule_object(arg.sections,
                                                                  arg.constraints)]
    /\ UNCHANGED <<inputVars, callVars, pc, viable_lists, results, stats, tracer, stack,
                   tried, ret, arg>>

NextFunctions ==
    \/ CallCreateScheduleObject
    \/ CallGeneratorCreateScheduleObject
    \/ CallHasConflict
    \/ CallParseScheduleString
    \/ CallParseTimeToMinutes
    \/ CallIsViable
    \/ CallSectionIsViable
    \/ CallIsFull
    \/ CallIsAtRisk

SpecFunctions == InitFunctions /\ [][NextFunctions]_vars

\* ------------------------------------------- the problem a call is given

Done == pc = "done"

Returned == ret.results

Counters == ret.stats

Viable(section, cons) ==
    IF /\ section.group \in 1..Len(Catalogue)
       /\ section = Catalogue[section.group]
       /\ cons.earliestStart = EarliestStartText
       /\ cons.latestEnd = LatestEndText
    THEN ViableTable[section.group][cons.allowFull][cons.allowAt_risk]
    ELSE is_viable(section, cons)

\* the positions of course c's sections that pass is_viable
ViableIdx(c) ==
    {i \in 1..Len(course_sections[c]) : Viable(course_sections[c][i], constraints)}

EveryCourseViable == \A c \in 1..Len(course_sections) : ViableIdx(c) # {}

\* one viable position per course, for the first n courses
RECURSIVE Choices(_)
Choices(n) ==
    IF n = 0 THEN {<< >>}
    ELSE {Append(t, i) : t \in Choices(n - 1), i \in ViableIdx(n)}

\* the sections a choice selects, as the engine hands them out
Chosen(t) ==
    [c \in 1..Len(t) |->
        WithParsed(course_sections[c][t[c]], Parse(course_sections[c][t[c]].schedule))]

ConflictFree(sel) ==
    \A i, j \in 1..Len(sel) : i # j => ~has_conflict(sel[i], sel[j])

AllViable(sel) == \A i \in 1..Len(sel) : is_viable(sel[i], constraints)

\* the feasible combinations: one viable section per course, pairwise
\* conflict-free, at most maxFullPerSchedule full sections
Feasible ==
    {t \in Choices(Len(course_sections)) :
        ConflictFree(Chosen(t)) /\ CountFull(Chosen(t)) <= max_full}

FeasibleCount == Cardinality(Feasible)

\* the positions of the returned list that hold the selections sel
ReturnedAt(sel) == {r \in 1..Len(Returned) : Returned[r].selections = sel}

\* ------------------------------------------------------------------ claims

\* C1: every combination generate_schedules returns is pairwise free of
\* conflicts (has_conflict is false for every two of its selections) and each
\* of its selections passes is_viable under the constraints of the run.
C1_ReturnedCombinationsSound ==
    Done => \A r \in 1..Len(Returned) :
                /\ ConflictFree(Returned[r].selections)
                /\ AllViable(Returned[r].selections)

\* a call over two courses returned a combination after skipping a section
\* that is not viable and a candidate that conflicts
C1_Witness ==
    /\ Done
    /\ Len(Returned) >= 1
    /\ Len(Returned[1].selections) = 2
    /\ Counters.pruned_by_viability >= 1
    /\ Counters.pruned_by_conflict >= 1

\* C2: when every course has a viable section and there are at most
\* maxSchedules feasible combinations, the call returns each feasible
\* combination exactly once and nothing else.
C2_Complete ==
    (Done /\ EveryCourseViable /\ FeasibleCount <= max_schedules) =>
        /\ Len(Returned) = FeasibleCount
        /\ \A t \in Feasible : Cardinality(ReturnedAt(Chosen(t))) = 1
        /\ \A r \in 1..Len(Returned) : \E t \in Feasible : Returned[r].selections = Chosen(t)

\* a call with exactly maxSchedules = 2 feasible combinations returned
C2_Witness ==
    /\ Done
    /\ EveryCourseViable
    /\ FeasibleCount = 2
    /\ max_schedules = 2
    /\ Len(Returned) = 2

\* C3: with more feasible combinations than maxSchedules >= 1 the call returns
\* exactly maxSchedules combinations, and the result list never holds more
\* than maxSchedules entries while the search runs.
C3_CapOnSize ==
    (pc # "idle" /\ EveryCourseViable /\ max_schedules >= 1 /\ FeasibleCount > max_schedules) =>
        /\ Len(results) <= max_schedules
        /\ Done => Len(Returned) = max_schedules

\* a call with two feasible combinations and maxSchedules = 1 returned
C3_Witness ==
    /\ Done
    /\ EveryCourseViable
    /\ max_schedules = 1
    /\ FeasibleCount = 2
    /\ Len(Returned) = 1

\* The nodes backtrack(step, current_selection) explores when the cap never
\* binds: the frame itself and, at an inner frame, the frames of the
\* candidates from position i on that do not conflict.
RECURSIVE ExhaustiveNodes(_, _), ExhaustiveLoop(_, _, _)
ExhaustiveNodes(step, current_selection) ==
    IF step = Len(viable_lists) THEN 1
    ELSE 1 + ExhaustiveLoop(step, current_selection, 1)

ExhaustiveLoop(step, current_selection, i) ==
    IF i > Len(viable_lists[step + 1]) THEN 0
    ELSE (IF Conflicts(viable_lists[step + 1][i], current_selection) THEN 0
          ELSE ExhaustiveNodes(step + 1, Append(current_selection, viable_lists[step + 1][i])))
         + ExhaustiveLoop(step, current_selection, i + 1)

\* C4 as claimed, on calls that may record a combination (maxSchedules >= 1):
\* with more feasible combinations than maxSchedules, the capped call reports
\* strictly fewer nodesExplored than the same search run exhaustively.
C4_StrictlyFewerNodes ==
    (Done /\ EveryCourseViable /\ max_schedules >= 1 /\ FeasibleCount > max_schedules) =>
        Counters.nodes_explored < ExhaustiveNodes(0, << >>)

\* C4: with more feasible combinations than maxSchedules, the capped call
\* never reports more nodesExplored than the same search run exhaustively
\* (a call cut short by the cap is still counted as one node, so the two are
\* equal when every call cut short would have been a leaf).
C4_NoMoreNodes ==
    (Done /\ EveryCourseViable /\ FeasibleCount > max_schedules) =>
        Counters.nodes_explored <= ExhaustiveNodes(0, << >>)

\* a capped call that explored strictly fewer nodes than the exhaustive search
C4_Witness ==
    /\ Done
    /\ EveryCourseViable
    /\ max_schedules >= 1
    /\ FeasibleCount > max_schedules
    /\ Counters.nodes_explored < ExhaustiveNodes(0, << >>)

\* C5 as claimed: a call with maxSchedules <= 0 returns no combination, tries
\* no candidate, and reports nodesExplored, validSchedulesFound,
\* prunedByConflict and prunedByFullLimit all 0.
C5_ZeroExploration ==
    (Done /\ max_schedules <= 0) =>
        /\ Returned = << >>
        /\ tried = 0
        /\ Counters.nodes_explored = 0
        /\ Counters.valid_schedules = 0
        /\ Counters.pruned_by_conflict = 0
        /\ Counters.pruned_by_full = 0

\* C5: a call with maxSchedules <= 0 returns no combination and tries no
\* candidate; validSchedulesFound, prunedByConflict and prunedByFullLimit are
\* 0, and nodesExplored is 1 (the root call, counted before the cap check)
\* when every course has a viable section and 0 when the pre-filter returns.
C5_RootCallOnly ==
    (Done /\ max_schedules <= 0) =>
        /\ Returned = << >>
        /\ tried = 0
        /\ Counters.nodes_explored = (IF EveryCourseViable THEN 1 ELSE 0)
        /\ Counters.valid_schedules = 0
        /\ Counters.pruned_by_conflict = 0
        /\ Counters.pruned_by_full = 0

\* a call with maxSchedules <= 0 over two courses with viable sections returned
C5_Witness ==
    /\ Done
    /\ max_schedules <= 0
    /\ Len(course_sections) = 2
    /\ EveryCourseViable
    /\ Counters.nodes_explored = 1

\* the first course without a viable section
FirstEmptyCourse ==
    CHOOSE c \in 1..Len(course_sections) :
        /\ ViableIdx(c) = {}
        /\ \A d \in 1..(c - 1) : ViableIdx(d) # {}

\* the sections of the courses up to c that do not pass is_viable
SkippedUpTo(c) ==
    {<<d, i>> \in (1..c) \X (1..MaxSections) :
        i <= Len(course_sections[d]) /\ ~Viable(course_sections[d][i], constraints)}

\* C6: if some course has no viable section (its list may be empty), the call
\* returns an empty result list without exploring: nodesExplored,
\* prunedByConflict and prunedByFullLimit are 0, no candidate is tried, and
\* prunedByViability counts the sections skipped by the pre-filter up to and
\* including the first such course.
C6_PreFilterShortCircuit ==
    (Done /\ ~EveryCourseViable) =>
        /\ Returned = << >>
        /\ tried = 0
        /\ Counters.nodes_explored = 0
        /\ Counters.valid_schedules = 0
        /\ Counters.pruned_by_conflict = 0
        /\ Counters.pruned_by_full = 0
        /\ Counters.pruned_by_viability = Cardinality(SkippedUpTo(FirstEmptyCourse))

\* the pre-filter returned at the second course, after skipping a section of
\* the first course and the sections of the second, with results allowed
C6_Witness ==
    /\ Done
    /\ max_schedules >= 1
    /\ Len(course_sections) = 2
    /\ ViableIdx(1) # {}
    /\ ViableIdx(2) = {}
    /\ Len(course_sections[2]) >= 1
    /\ Counters.pruned_by_viability >= 2

\* the input sections whose schedule text does not parse, as <<course, position>>
Unparseable ==
    {<<c, i>> \in (1..Len(course_sections)) \X (1..MaxSections) :
        i <= Len(course_sections[c])
        /\ Parse(course_sections[c][i].schedule) = None}

SameSection(s, t) ==
    s.group = t.group /\ s.schedule = t.schedule /\ s.enrolled = t.enrolled

\* the courses the pre-filter has gone through
Filtered == IF EveryCourseViable THEN Len(course_sections) ELSE FirstEmptyCourse

\* C7: a section whose schedule text does not parse is dropped by the
\* pre-filter (it is in no pre-filtered list and counts in prunedByViability
\* once its course is filtered), is never part of a partial selection and
\* never appears in a returned combination; the call still returns.
C7_UnparseableNeverSelected ==
    pc # "idle" =>
        \A u \in Unparseable :
            /\ \A c \in 1..Len(viable_lists) : \A i \in 1..Len(viable_lists[c]) :
                   ~SameSection(viable_lists[c][i], course_sections[u[1]][u[2]])
            /\ \A f \in 1..Len(stack) : \A i \in 1..Len(stack[f].current_selection) :
                   ~SameSection(stack[f].current_selection[i], course_sections[u[1]][u[2]])
            /\ Done =>
                   /\ \A r \in 1..Len(Returned) : \A i \in 1..Len(Returned[r].selections) :
                          ~SameSection(Returned[r].selections[i], course_sections[u[1]][u[2]])
                   /\ Counters.pruned_by_viability >=
                          Cardinality({v \in Unparseable : v[1] <= Filtered})

\* a call whose input holds an unparseable section next to a viable one in the
\* same course returned a combination
C7_Witness ==
    /\ Done
    /\ Len(Returned) >= 1
    /\ \E u \in Unparseable : Len(course_sections[u[1]]) = 2

\* -------------------------------------------------- has_conflict, directly

\* C8: has_conflict(a, b) equals has_conflict(b, a) for all sections a and b,
\* whether their schedules parse or not.
C8_ConflictSymmetric ==
    (arg.op = "has_conflict" /\ out # None) =>
        out.value = has_conflict(arg.b, arg.a)

\* the later of two back-to-back sections was compared with the earlier one
C8_Witness ==
    /\ arg.op = "has_conflict"
    /\ out # None
    /\ arg.a.schedule = MW_1030_1200
    /\ arg.b.schedule = MW_0900_1030

\* the interval of a section: the one attached to it, else the one its text gives
IntervalOf(s) ==
    IF s.parsed_schedule # None THEN s.parsed_schedule
    ELSE parse_schedule_string(s.schedule)

SharedDay(p, q) == \E i \in 1..Len(p.days) : \E j \in 1..Len(q.days) : p.days[i] = q.days[j]

\* both intervals exist, a day is shared and the half-open intervals overlap
Overlap(p, q) ==
    /\ p # None
    /\ q # None
    /\ SharedDay(p, q)
    /\ p.startTime < q.endTime
    /\ q.startTime < p.endTime

\* one of the cases the claim singles out as never conflicting
Apart(p, q) ==
    \/ p = None
    \/ q = None
    \/ ~SharedDay(p, q)
    \/ p.endTime <= q.startTime
    \/ q.endTime <= p.startTime

\* C9: has_conflict(a, b) is true exactly when both intervals exist, the day
\* sets share a day and a.start < b.end and b.start < a.end; touching
\* intervals, disjoint times, disjoint day sets and a section without an
\* interval never conflict.
C9_HalfOpenOverlap ==
    (arg.op = "has_conflict" /\ out # None) =>
        /\ out.value = Overlap(IntervalOf(arg.a), IntervalOf(arg.b))
        /\ Apart(IntervalOf(arg.a), IntervalOf(arg.b)) => out.value = FALSE

\* two sections on shared days, the second starting when the first ends, were
\* compared and found not to conflict
C9_Witness ==
    /\ arg.op = "has_conflict"
    /\ out # None
    /\ arg.a.schedule = MW_0900_1030
    /\ arg.b.schedule = MW_1030_1200
    /\ out.value = FALSE

\* ------------------------------------------------------- two calls compared

\* C10: a second call of generate_schedules with the same course lists and the
\* same constraints returns the same result list (same combinations, same
\* order, same meta) and the same counters nodes_explored, valid_schedules,
\* pruned_by_conflict, pruned_by_viability and pruned_by_full as the first.
C10_SecondCallSame ==
    (Done /\ run = 2) =>
        /\ ret.results = first.results
        /\ ret.stats.nodes_explored = first.stats.nodes_explored
        /\ ret.stats.valid_schedules = first.stats.valid_schedules
        /\ ret.stats.pruned_by_conflict = first.stats.pruned_by_conflict
        /\ ret.stats.pruned_by_viability = first.stats.pruned_by_viability
        /\ ret.stats.pruned_by_full = first.stats.pruned_by_full

\* a second call returned after a first one that returned a combination and
\* pruned both a non-viable and a conflicting section
C10_Witness ==
    /\ Done
    /\ run = 2
    /\ Len(first.results) >= 1
    /\ first.stats.pruned_by_viability >= 1
    /\ first.stats.pruned_by_conflict >= 1

\* C11: on the same course lists and constraints, generate_schedules with
\* enable_tracing=True returns the same result list and the same counters
\* nodes_explored, valid_schedules, pruned_by_conflict, pruned_by_viability and
\* pruned_by_full as with enable_tracing=False.
C11_TracingSameOutcome ==
    (Done /\ run = 2 /\ enable_tracing) =>
        /\ ret.results = first.results
        /\ [ret.stats EXCEPT !.execution_time_ms = 0] =
               [first.stats EXCEPT !.execution_time_ms = 0]

\* a traced call has returned a combination after logging a candidate tried, a
\* section pruned for viability, a candidate pruned for a conflict and a valid
\* schedule
C11_Witness ==
    /\ Done
    /\ run = 2
    /\ tracer.enabled
    /\ Len(ret.results) >= 1
    /\ \E i, j, k, l \in 1..Len(tracer.traces) :
           /\ tracer.traces[i][1] = "[TRY]"
           /\ tracer.traces[j][1] = "[PRUNE]" /\ tracer.traces[j][2] = "VIABILITY"
           /\ tracer.traces[k][1] = "[PRUNE]" /\ tracer.traces[k][2] = "CONFLICT"
           /\ tracer.traces[l][1] = "[VALID]"

\* ------------------------------------------------- selections and the caller's records

\* every returned combination has one selection per course
OnePerCourse ==
    \A r \in 1..Len(Returned) : Len(Returned[r].selections) = Len(course_sections)

\* selection i of every returned combination is, field for field, one of the
\* records the caller supplied for course i
SelectionsSupplied ==
    \A r \in 1..Len(Returned) : \A i \in 1..Len(Returned[r].selections) :
        \E k \in 1..Len(course_sections[i]) :
            Returned[r].selections[i] = course_sections[i][k]

\* selection i of every returned combination is one of the records the caller
\* supplied for course i in group, schedule, enrolled and status, and carries
\* the parsed schedule of its schedule text
SelectionsSuppliedWithParsed ==
    \A r \in 1..Len(Returned) : \A i \in 1..Len(Returned[r].selections) :
        \E k \in 1..Len(course_sections[i]) :
            /\ Returned[r].selections[i].group = course_sections[i][k].group
            /\ Returned[r].selections[i].schedule = course_sections[i][k].schedule
            /\ Returned[r].selections[i].enrolled = course_sections[i][k].enrolled
            /\ Returned[r].selections[i].status = course_sections[i][k].status
            /\ Returned[r].selections[i].parsed_schedule =
                   Parse(course_sections[i][k].schedule)

\* C12 as stated: every returned combination has exactly one selection per
\* course, in course order, selection i is one of the Section records the
\* caller supplied for course i, unchanged in every field, and no step of the
\* call changes the caller's course lists and Sections.
C12_SelectionsUnchangedRecords ==
    [][/\ course_sections' = course_sections
       /\ Done' => (OnePerCourse /\ SelectionsSupplied)']_vars

\* C12, amended: every returned combination has exactly one selection per
\* course, in course order, selection i is one of the Section records the
\* caller supplied for course i in group, schedule, enrolled and status,
\* re-created with the parsed schedule of its schedule text attached, and no
\* step of the call changes the caller's course lists and Sections.
C12_SelectionsRecreatedRecords ==
    [][/\ course_sections' = course_sections
       /\ Done' => (OnePerCourse /\ SelectionsSuppliedWithParsed)']_vars

\* a call over two courses, one of them with two sections, returned a combination
C12_Witness ==
    /\ Done
    /\ Len(course_sections) = 2
    /\ \E c \in 1..2 : Len(course_sections[c]) = 2
    /\ Len(Returned) >= 1
    /\ Returned[1].selections[1].parsed_schedule # None

\* ------------------------------------------------------- the full-section cap

\* the selections of sel for which is_full is true
FullSelections(sel) == {i \in 1..Len(sel) : is_full(sel[i])}

\* the completed conflict-free assignments with more than maxFullPerSchedule
\* full selections
TooFull ==
    {t \in Choices(Len(course_sections)) :
        /\ ConflictFree(Chosen(t))
        /\ Cardinality(FullSelections(Chosen(t))) > constraints.maxFullPerSchedule}

\* C13: every returned combination contains at most maxFullPerSchedule
\* selections for which is_full is true and its meta.fullCount is that number;
\* a completed conflict-free assignment with more full selections is not
\* returned and counts in pruned_by_full, not in valid_schedules (each of them
\* once when the cap on results is never reached).
C13_FullSectionCap ==
    Done =>
        /\ \A r \in 1..Len(Returned) :
               /\ Cardinality(FullSelections(Returned[r].selections)) <=
                      constraints.maxFullPerSchedule
               /\ Returned[r].meta.fullCount =
                      Cardinality(FullSelections(Returned[r].selections))
        /\ Counters.valid_schedules = Len(Returned)
        /\ EveryCourseViable =>
               /\ \A t \in TooFull : ReturnedAt(Chosen(t)) = {}
               /\ Counters.pruned_by_full <= Cardinality(TooFull)
               /\ FeasibleCount < constraints.maxSchedules =>
                      Counters.pruned_by_full = Cardinality(TooFull)
        /\ ~EveryCourseViable => Counters.pruned_by_full = 0

\* a call returned a combination after discarding a completed conflict-free
\* assignment that holds a full section
C13_Witness ==
    /\ Done
    /\ Len(Returned) >= 1
    /\ Counters.pruned_by_full >= 1
    /\ TooFull # {}

\* ------------------------------------------------------- infeasible problems

\* the completed assignments of one viable section per course that are
\* pairwise conflict-free
ConflictFreeChoices ==
    {t \in Choices(Len(course_sections)) : ConflictFree(Chosen(t))}

\* what the statistics of an empty result show about its cause
CausesShown ==
    /\ \/ Counters.pruned_by_viability >= 1
       \/ Counters.pruned_by_conflict >= 1
       \/ Counters.pruned_by_full >= 1
    /\ ~EveryCourseViable => Counters.nodes_explored = 0
    /\ (EveryCourseViable /\ ConflictFreeChoices = {}) =>
           (Counters.pruned_by_conflict >= 1 /\ Counters.nodes_explored >= 1)
    /\ (EveryCourseViable /\ ConflictFreeChoices # {}) =>
           (Counters.pruned_by_full >= 1 /\ Counters.nodes_explored >= 1)

\* C14 as stated: whenever generate_schedules returns an empty result list with
\* maxSchedules >= 1 and at least one course, one of pruned_by_viability,
\* pruned_by_conflict and pruned_by_full is >= 1, with nodes_explored = 0 when
\* some course has no viable section, pruned_by_conflict >= 1 when all
\* combinations conflict and pruned_by_full >= 1 when every conflict-free
\* combination has too many full sections.
C14_EmptyResultShowsCause ==
    (/\ Done
     /\ Len(Returned) = 0
     /\ constraints.maxSchedules >= 1
     /\ Len(course_sections) >= 1) => CausesShown

\* C14, amended: the same for the calls in which every course has at least one
\* section.
C14_EmptyResultShowsCauseNoEmptyCourse ==
    (/\ Done
     /\ Len(Returned) = 0
     /\ constraints.maxSchedules >= 1
     /\ Len(course_sections) >= 1
     /\ \A c \in 1..Len(course_sections) : Len(course_sections[c]) >= 1) => CausesShown

\* a call over two courses without an empty one returned an empty list after
\* the search discarded a completed assignment with too many full sections and
\* a candidate that conflicts
C14_Witness ==
    /\ Done
    /\ Len(Returned) = 0
    /\ constraints.maxSchedules >= 1
    /\ Len(course_sections) = 2
    /\ \A c \in 1..2 : Len(course_sections[c]) >= 1
    /\ Counters.pruned_by_full >= 1
    /\ Counters.pruned_by_conflict >= 1

\* ------------------------------------------- parse_schedule_string, directly

\* parse_schedule_string has returned an Interval
ParsedInterval == arg.op = "parse_schedule_string" /\ out # None /\ out.value # None

\* C15: every Interval that parse_schedule_string produces has
\* 0 <= startTime < endTime <= 1439, whatever one- or two-digit hour and
\* two-digit minute values the matched time range carries.
C15_IntervalWithinDay ==
    ParsedInterval =>
        /\ 0 <= out.value.startTime
        /\ out.value.startTime < out.value.endTime
        /\ out.value.endTime <= 1439

\* the calendar-day symbols
DayTokenSet == {"M", "T", "W", "Th", "F", "S", "Su"}

\* the day run of the text parse_schedule_string was called on
DayRunOf(text) == Split(text)[1]

\* C16: every day token of an Interval parse_schedule_string produces is one of
\* M, T, W, Th, F, S, Su; 'T' immediately followed by 'h' is the single token
\* Th, so that no token h follows a token T and 'TTh' yields T, Th; two
\* sections that meet on T and on Th only never conflict.
C16_DayTokens ==
    /\ ParsedInterval =>
           /\ \A k \in 1..Len(out.value.days) : out.value.days[k] \in DayTokenSet
           /\ \A k \in 1..(Len(out.value.days) - 1) :
                  ~(out.value.days[k] = "T" /\ out.value.days[k + 1] = "h")
           /\ DayRunOf(arg.schedule_string) = <<"T", "T", "h">> =>
                  out.value.days = <<"T", "Th">>
    /\ (/\ arg.op = "has_conflict"
        /\ out # None
        /\ ParsedOf(arg.a) # None
        /\ ParsedOf(arg.b) # None
        /\ DaySet(ParsedOf(arg.a)) = {"T"}
        /\ DaySet(ParsedOf(arg.b)) = {"Th"}) => ~out.value

\* ------------------------------------------- parse_time_to_minutes, directly

\* the minute of the day of hour:minute AM or PM on the 12-hour clock
MinuteOfDay(hour, minute, pm) ==
    IF hour = 12 THEN (IF pm THEN 720 + minute ELSE minute)
    ELSE hour * 60 + minute + (IF pm THEN 720 ELSE 0)

\* C17: for every hour h in 1..12 and minute m in 0..59, '12:m AM' converts to
\* m, '12:m PM' to 720 + m, 'h:m AM' with h # 12 to h * 60 + m and 'h:m PM' with
\* h # 12 to h * 60 + m + 720, in either case of the meridiem;
\* 'MW 10:00 AM - 11:30 AM' parses to 600 and 690 and 'TTh 01:00 PM - 03:00 PM'
\* to 780 and 900.
C17_TwelveHourConversion ==
    /\ (arg.op = "parse_time_to_minutes" /\ out # None) =>
           out.value = MinuteOfDay(arg.hour, arg.minute, arg.pm)
    /\ (arg.op = "parse_schedule_string" /\ out # None) =>
           /\ arg.schedule_string = MW_1000_1130 =>
                  (/\ out.value # None
                   /\ out.value.startTime = 600
                   /\ out.value.endTime = 690)
           /\ arg.schedule_string = TTh_0100_0300 =>
                  (/\ out.value # None
                   /\ out.value.startTime = 780
                   /\ out.value.endTime = 900)

\* parse_time_to_minutes has converted '12:59am'
C17_Witness ==
    /\ arg.op = "parse_time_to_minutes"
    /\ arg.time_str = <<"1", "2", ":", "5", "9", "a", "m">>
    /\ out # None
    /\ out.value = 59

\* the time range of a text of at least two fields: the match of the
\* time-range pattern in what follows the day run, or None
TimeRangeOf(fields) == RangeSearch(Join(Tail(fields)), 1)

\* the failure conditions for a text whose time range matched
RangeFailure(range) ==
    \/ range = None
    \/ parse_time_to_minutes(range.group1) = NoneInt
    \/ parse_time_to_minutes(range.group2) = NoneInt
    \/ parse_time_to_minutes(range.group1) >= parse_time_to_minutes(range.group2)

\* the listed failure conditions: empty text, fewer than two
\* whitespace-delimited fields, no time-range match, a time that does not
\* convert, or start >= end
ListedFailure(text) ==
    IF Len(text) = 0 \/ Len(Split(text)) < 2 THEN TRUE
    ELSE RangeFailure(TimeRangeOf(Split(text)))

\* C18: parse_schedule_string returns None exactly under the listed failure
\* conditions (empty text, fewer than two whitespace-delimited fields, no
\* time-range match, unparseable hour, minute or meridiem, start >= end), so
\* that every text made of a day run, whitespace and a '<time> - <time>' range
\* with start < end yields an Interval.
C18_NoneExactlyOnListedFailures ==
    (arg.op = "parse_schedule_string" /\ out # None) =>
        (out.value = None <=> ListedFailure(arg.schedule_string))

\* ------------------------------------------------------- is_viable, directly

\* the allowAtRisk setting of the constraints of a call, under the key of the
\* engine called
AllowAtRiskOf(call) ==
    IF call.op = "is_viable" THEN call.constraints.allowAt_risk
    ELSE call.constraints.allowAtRisk

\* a section with the interval iv under the window 08:00 (minute 480) to 18:00
\* (minute 1080), both bounds inclusive
Accepted(iv, section, allowFull, allowAtRisk) ==
    /\ iv.startTime >= 480
    /\ iv.endTime <= 1080
    /\ ~(~allowFull /\ is_full(section))
    /\ ~(~allowAtRisk /\ is_at_risk(section))

\* C19: is_viable is false when the section has no interval; otherwise it is
\* true exactly when the interval starts at or after earliestStart, ends at or
\* before latestEnd, the section is not full unless allowFull and not at risk
\* unless allowAtRisk; in the functional engine and in the class-based one.
C19_ViableExactly ==
    (arg.op \in {"is_viable", "Section.is_viable"} /\ out # None) =>
        IF parse_schedule_string(arg.section.schedule) = None THEN ~out.value
        ELSE out.value <=> Accepted(parse_schedule_string(arg.section.schedule),
                                    arg.section, arg.constraints.allowFull,
                                    AllowAtRiskOf(arg))

\* is_viable has accepted a full section that starts exactly at earliestStart
\* and ends exactly at latestEnd
C19_Witness ==
    /\ arg.op = "is_viable"
    /\ out # None
    /\ out.value
    /\ is_full(arg.section)
    /\ parse_schedule_string(arg.section.schedule) # None
    /\ parse_schedule_string(arg.section.schedule).startTime = 480
    /\ parse_schedule_string(arg.section.schedule).endTime = 1080

\* -------------------------------------------- is_full and is_at_risk, directly

\* the classification of the examples: '30/30' is full, '0/30' and '5/30' are
\* at risk, '15/30' and '25/30' are neither
ExampleValue(op, current) ==
    IF op = "is_full" THEN current = 30 ELSE current \in {0, 5}

\* C20: is_full is true iff the enrolment text matches digits/digits and
\* current >= total; is_at_risk is true iff it matches and current = 0, or
\* total >= 20 and current < 6, or total >= 10 and current < 2; both are false
\* when the text does not match; '30/30' is full, '0/30' and '5/30' are at risk,
\* '15/30' and '25/30' are neither.
C20_EnrolmentClassification ==
    (arg.op \in {"is_full", "is_at_risk"} /\ out # None) =>
        /\ arg.op = "is_full" =>
               (out.value <=> (arg.matches /\ arg.current >= arg.total))
        /\ arg.op = "is_at_risk" =>
               (out.value <=>
                    /\ arg.matches
                    /\ \/ arg.current = 0
                       \/ (arg.total >= 20 /\ arg.current < 6)
                       \/ (arg.total >= 10 /\ arg.current < 2))
        /\ (arg.matches /\ arg.total = 30 /\ arg.current \in {0, 5, 15, 25, 30}) =>
               (out.value <=> ExampleValue(arg.op, arg.current))

\* is_at_risk has returned true for a section enrolled '5/30'
C20_Witness ==
    /\ arg.op = "is_at_risk"
    /\ arg.section.enrolled = <<"5", "/", "3", "0">>
    /\ out # None
    /\ out.value

\* ------------------------------------------------------------- C21

\* the call of either create_schedule_object that has returned
ObjectReturned ==
    /\ arg.op \in {"create_schedule_object", "_create_schedule_object"}
    /\ out # None

\* the positions of the selections whose schedule text parses
Parseable(sel) == {k \in 1..Len(sel) : Parse(sel[k].schedule) # None}

\* the latest end of the constraints in minutes after midnight
PreferredEnd(cons) == IF cons.latestEnd = LatestEndText THEN 1080 ELSE 660

\* C21: in the combination either create_schedule_object builds, latestEnd is
\* the greatest endTime over the parsed intervals (0 when there is none),
\* endsByPreferred says whether latestEnd is at most the latestEnd constraint
\* in minutes, hasLate is true exactly when some selection starts at or after
\* minute 720, and when every selection parses, as in every returned
\* combination, parsed holds the interval of each selection in order.
C21_MetaConsistent ==
    ObjectReturned =>
        /\ out.value.selections = arg.sections
        /\ IF Parseable(arg.sections) = {}
           THEN out.value.meta.latestEnd = 0
           ELSE /\ \E k \in Parseable(arg.sections) :
                      Parse(arg.sections[k].schedule).endTime = out.value.meta.latestEnd
                /\ \A k \in Parseable(arg.sections) :
                      Parse(arg.sections[k].schedule).endTime <= out.value.meta.latestEnd
        /\ out.value.meta.endsByPreferred
               = (out.value.meta.latestEnd <= PreferredEnd(arg.constraints))
        /\ out.value.meta.hasLate
               = (\E k \in Parseable(arg.sections) :
                      Parse(arg.sections[k].schedule).startTime >= 720)
        /\ Parseable(arg.sections) = 1..Len(arg.sections)
               => /\ Len(out.value.parsed) = Len(arg.sections)
                  /\ \A k \in 1..Len(arg.sections) :
                         out.value.parsed[k] = Parse(arg.sections[k].schedule)

\* create_schedule_object has returned a combination of two sections that parse,
\* the first ending after the second, that starts at noon and overruns 11:00
C21_Witness ==
    /\ ObjectReturned
    /\ arg.op = "create_schedule_object"
    /\ Len(arg.sections) = 2
    /\ Parseable(arg.sections) = {1, 2}
    /\ Parse(arg.sections[1].schedule).endTime > Parse(arg.sections[2].schedule).endTime
    /\ out.value.meta.hasLate
    /\ ~out.value.meta.endsByPreferred
    /\ out.value.meta.latestEnd = 810

\* ------------------------------------------------------------- C22

\* the sections of the input, whichever course offers them
InputSections ==
    UNION {{course_sections[c][k] : k \in 1..Len(course_sections[c])} :
              c \in 1..Len(course_sections)}

\* every section of the input parses and is viable, maxSchedules is at least 1
\* and no conflict-free assignment has more full sections than the cap allows
ComparableProblem ==
    /\ \A s \in InputSections : Parse(s.schedule) # None /\ Viable(s, constraints)
    /\ constraints.maxSchedules >= 1
    /\ TooFull = {}

\* C22: on every pair of sections of the input that parse, _has_time_conflict
\* gives the verdict of has_conflict; and when every section parses and is
\* viable, maxSchedules is at least 1 and the full-section cap does not bind,
\* generate_schedules returns at least one combination exactly when the
\* comparator's model (one section per course, no two selected sections in
\* conflict) is satisfiable.
C22_ComparatorAgrees ==
    Done =>
        /\ \A a, b \in {s \in InputSections : Parse(s.schedule) # None} :
               has_conflict(a, b)
                   = _has_time_conflict(Parse(a.schedule), Parse(b.schedule))
        /\ ComparableProblem
               => ((Len(Returned) >= 1) <=> solve_with_cpsat(course_sections))

\* a comparable problem of two courses has returned a combination although
\* one section of the second course conflicts with the section chosen for the
\* first and another section ends at the minute a section of the other course starts
C22_Witness ==
    /\ Done
    /\ ComparableProblem
    /\ Len(course_sections) = 2
    /\ Len(Returned) >= 1
    /\ \E k \in 1..Len(course_sections[2]) :
           has_conflict(Returned[1].selections[1], course_sections[2][k])
    /\ \E a, b \in InputSections :
           /\ Parse(a.schedule).endTime = Parse(b.schedule).startTime
           /\ DaySet(Parse(a.schedule)) \cap DaySet(Parse(b.schedule)) # {}

\* ------------------------------------------------------------- C23

\* the combinations found so far, and after the return those returned
Found == IF Done THEN Returned ELSE IF pc = "search" THEN results ELSE << >>

\* t comes before u in the lexicographic order of the positions per course
LexLess(t, u) ==
    \E k \in 1..Len(t) : t[k] < u[k] /\ \A j \in 1..(k - 1) : t[j] = u[j]

\* the place of the feasible combination t in that order
LexRank(t) == Cardinality({u \in Feasible : LexLess(u, t)}) + 1

\* the frame at depth k has assigned courses 1..k in this order, each to the
\* candidate its caller's loop took last
AssignedInOrder ==
    \A k \in 1..Len(stack) :
        /\ stack[k].step = k - 1
        /\ Len(stack[k].current_selection) = k - 1
        /\ \A c \in 1..(k - 1) :
               /\ stack[c].at = "loop"
               /\ stack[k].current_selection[c] = viable_lists[c][stack[c].i - 1]

\* C23: courses are assigned in input order and the loop of a frame takes the
\* viable sections of its course in input order, so the r-th combination
\* found is the r-th feasible combination in the lexicographic order of the
\* positions per course, and the list returned holds the first maxSchedules
\* of them (all of them when there are fewer).
C23_LexicographicOrder ==
    /\ pc = "search" => AssignedInOrder
    /\ \A r \in 1..Len(Found) :
           \E t \in Feasible : LexRank(t) = r /\ Found[r].selections = Chosen(t)
    /\ (Done /\ EveryCourseViable) =>
           Len(Returned) = IF FeasibleCount <= max_schedules THEN FeasibleCount
                           ELSE IF max_schedules >= 0 THEN max_schedules ELSE 0

\* the cap binds: two combinations were returned and a third is feasible
C23_Witness ==
    /\ Done
    /\ Len(Returned) = 2
    /\ max_schedules = 2
    /\ FeasibleCount >= 3

\* ------------------------------------------------------------- C24

\* the search is under way and the result count has reached maxSchedules
CapBinds == pc = "search" /\ Len(results) >= constraints.maxSchedules

\* a step of the search that only unwinds: a frame returns, or the call does
Unwinds ==
    \/ Len(stack') < Len(stack) /\ stack' = SubSeq(stack, 1, Len(stack'))
    \/ pc' = "done" /\ stack' = stack

\* C24 as stated: once the result count has reached maxSchedules no further
\* candidate is tried or conflict-tested, no result is appended, no pruning
\* counter changes and the recursion only unwinds.
C24_OnlyUnwinds ==
    [][CapBinds =>
          /\ tried' = tried
          /\ results' = results
          /\ stats'.pruned_by_conflict = stats.pruned_by_conflict
          /\ stats'.pruned_by_viability = stats.pruned_by_viability
          /\ stats'.pruned_by_full = stats.pruned_by_full
          /\ Unwinds]_vars

\* C24: once the result count has reached maxSchedules, every frame entered
\* returns immediately, no result is appended and no count of valid
\* schedules, of viability prunes or of full-limit prunes changes; the loops
\* of the frames still open go on through their remaining candidates, and a
\* step that is not the unwinding of a frame is the trial of such a candidate.
C24_FramesReturnAtOnce ==
    [][CapBinds =>
          /\ AtEntry => stack' = Pop /\ tried' = tried
          /\ results' = results
          /\ stats'.valid_schedules = stats.valid_schedules
          /\ stats'.pruned_by_viability = stats.pruned_by_viability
          /\ stats'.pruned_by_full = stats.pruned_by_full
          /\ Unwinds \/ (AtLoop /\ tried' = tried + 1)]_vars

\* the cap of at least one result is reached and a frame has been entered for
\* a candidate tried since
C24_Witness ==
    /\ CapBinds
    /\ constraints.maxSchedules >= 1
    /\ AtEntry
    /\ Len(stack) > 1

\* ------------------------------------------------------------- C25

\* the frames entered whose entry has not been counted yet: the one on top, if
\* it is at its entry
Uncounted(frames) ==
    IF Len(frames) > 0 /\ frames[Len(frames)].at = "entry" THEN 1 ELSE 0

\* C25: every call of backtrack increments nodesExplored exactly once, at its
\* entry, and nothing else does; a candidate tried either conflicts and is
\* pruned or passes and has a frame entered for it; so throughout the search
\* the frames entered are 1 plus the candidates that passed, and when
\* backtrack(0, []) has returned nodesExplored is 1 plus the candidates that
\* passed the conflict test and the candidates tried are
\* (nodesExplored - 1) + prunedByConflict.
C25_NodeAccounting ==
    [][/\ AtEntry => stats'.nodes_explored = stats.nodes_explored + 1
       /\ (pc = "search" /\ ~AtEntry) => stats'.nodes_explored = stats.nodes_explored
       /\ (pc = "search" /\ tried' # tried) =>
              /\ tried' = tried + 1
              /\ IF Conflicts(Candidate, Top.current_selection)
                 THEN /\ stats'.pruned_by_conflict = stats.pruned_by_conflict + 1
                      /\ Len(stack') = Len(stack)
                 ELSE /\ stats'.pruned_by_conflict = stats.pruned_by_conflict
                      /\ Len(stack') = Len(stack) + 1
                      /\ Uncounted(stack') = 1
       /\ pc' = "search" =>
              stats'.nodes_explored + Uncounted(stack')
                  = 1 + (tried' - stats'.pruned_by_conflict)
       /\ (pc = "search" /\ pc' = "done") =>
              /\ ret'.stats.nodes_explored
                     = 1 + (tried' - ret'.stats.pruned_by_conflict)
              /\ tried' = (ret'.stats.nodes_explored - 1)
                              + ret'.stats.pruned_by_conflict]_vars

\* a search has returned after trying four candidates, one of them pruned for
\* a conflict
C25_Witness ==
    /\ Done
    /\ EveryCourseViable
    /\ tried = 4
    /\ Counters.pruned_by_conflict = 1
    /\ Counters.nodes_explored = 4

\* ------------------------------------------------------------- C26

\* the frame on top is entered at a completed assignment before the cap on
\* results is reached
AtOpenLeaf ==
    /\ AtEntry
    /\ Top.step = Len(viable_lists)
    /\ Len(results) < constraints.maxSchedules

\* the loop of the frame on top is about to try a section that conflicts with
\* none of the sections selected
AboutToExtend ==
    /\ AtLoop
    /\ Top.i <= Len(viable_lists[Top.step + 1])
    /\ ConflictFree(Append(Top.current_selection,
                           viable_lists[Top.step + 1][Top.i]))

\* C26: the full-section cap is tested at completed assignments only: a
\* conflict-free candidate is added to the selection whatever the number of
\* full sections, prunedByFullLimit changes only at a completed conflict-free
\* assignment reached before the cap on results, by exactly one and exactly
\* when its full count exceeds maxFullPerSchedule, and a search that ends
\* below the cap on results has counted every such assignment once.
C26_FullCapAtLeavesOnly ==
    [][pc = "search" =>
          /\ AboutToExtend =>
                 /\ Len(stack') = Len(stack) + 1
                 /\ stack'[Len(stack')].current_selection
                        = Append(Top.current_selection, viable_lists[Top.step + 1][Top.i])
                 /\ stats'.pruned_by_full = stats.pruned_by_full
          /\ stats'.pruned_by_full # stats.pruned_by_full =>
                 /\ AtOpenLeaf
                 /\ ConflictFree(Top.current_selection)
                 /\ Len(Top.current_selection) = Len(course_sections)
                 /\ stats'.pruned_by_full = stats.pruned_by_full + 1
          /\ AtOpenLeaf =>
                 ((stats'.pruned_by_full = stats.pruned_by_full + 1)
                      <=> (Cardinality(FullSelections(Top.current_selection))
                              > constraints.maxFullPerSchedule))
          /\ (pc' = "done" /\ Len(results) < constraints.maxSchedules) =>
                 ret'.stats.pruned_by_full = Cardinality(TooFull)]_vars

\* a selection of one section for the first of two courses, already over the
\* full-section cap, has been extended to a completed assignment
C26_Witness ==
    /\ AtOpenLeaf
    /\ Len(viable_lists) = 2
    /\ Cardinality(FullSelections(SubSeq(Top.current_selection, 1, 1)))
           > constraints.maxFullPerSchedule

\* ------------------------------------------------------------- C27

\* the constraints under the keys the class-based engine reads
ClassConstraints ==
    [earliestStart |-> constraints.earliestStart,
     latestEnd |-> constraints.latestEnd,
     allowFull |-> constraints.allowFull,
     allowAtRisk |-> constraints.allowAt_risk,
     maxSchedules |-> constraints.maxSchedules,
     maxFullPerSchedule |-> constraints.maxFullPerSchedule]

\* the frame at depth d holds d sections, the i-th a viable section of course
\* i, no two of them in conflict
FramesWellFormed ==
    \A k \in 1..Len(stack) :
        /\ stack[k].step = k - 1
        /\ Len(stack[k].current_selection) = k - 1
        /\ \A i \in 1..(k - 1) : \E j \in ViableIdx(i) :
               stack[k].current_selection[i]
                   = WithParsed(course_sections[i][j], Parse(course_sections[i][j].schedule))
        /\ ConflictFree(stack[k].current_selection)

\* the loop of the frame on top is about to try a section in conflict with
\* one of the sections selected
AboutToSkip ==
    /\ AtLoop
    /\ Top.i <= Len(viable_lists[Top.step + 1])
    /\ ~ConflictFree(Append(Top.current_selection, viable_lists[Top.step + 1][Top.i]))

\* C27: the frame at depth d holds exactly d sections, the i-th a viable
\* section of course i, pairwise free of conflict; a candidate in conflict is
\* skipped without a recursive call and raises prunedByConflict by exactly
\* one; and when a call returns, the selection of its caller, like that of
\* every frame below, is what it was before the call.  In the class-based
\* engine, whose calls share one list, the list is empty again when
\* _backtrack(0, []) has returned.
C27_SelectionDiscipline ==
    [][/\ pc' = "search" => FramesWellFormed'
       /\ (pc = "search" /\ AboutToSkip) =>
              /\ Len(stack') = Len(stack)
              /\ stack' = [stack EXCEPT ![Len(stack)].i = Top.i + 1]
              /\ stats'.pruned_by_conflict = stats.pruned_by_conflict + 1
              /\ stats'.nodes_explored = stats.nodes_explored
       /\ (pc = "search" /\ pc' = "search") =>
              \A k \in 1..Len(stack) : k <= Len(stack') =>
                  stack'[k].current_selection = stack[k].current_selection
       /\ (pc = "search" /\ Len(stack') < Len(stack)) =>
              stack' = SubSeq(stack, 1, Len(stack) - 1)
       /\ (pc' = "done"
             /\ \A c \in 1..Len(course_sections) :
                    Len(ScheduleGenerator_viable(course_sections, ClassConstraints)[c]) > 0) =>
              ScheduleGenerator_backtrack(
                  course_sections, ClassConstraints, 0, << >>, << >>,
                  ScheduleGenerator_viable(course_sections, ClassConstraints)).current
                  = << >>]_vars

\* the loop of a frame at depth 1 has skipped one candidate for its conflict
\* and has had a call for another return with a result
C27_Witness ==
    /\ AtLoop
    /\ Len(stack) = 2
    /\ Top.i = 3
    /\ Len(Top.current_selection) = 1
    /\ stats.pruned_by_conflict = 1
    /\ Len(results) = 1

\* ------------------------------------------------------------- C28

\* no counter of the statistics after is below its value before
NotBelow(after, before) ==
    /\ after.nodes_explored >= before.nodes_explored
    /\ after.valid_schedules >= before.valid_schedules
    /\ after.pruned_by_conflict >= before.pruned_by_conflict
    /\ after.pruned_by_viability >= before.pruned_by_viability
    /\ after.pruned_by_full >= before.pruned_by_full

\* C28: in the course of one call no step lowers a counter, the count of valid
\* schedules is the length of the result list in every state of the search,
\* and the statistics returned carry the counters as they stand, with
\* validSchedulesFound the length of the list returned.
C28_CountersMonotone ==
    [][/\ (pc = "search" /\ pc' = "search") => NotBelow(stats', stats)
       /\ pc' = "search" => stats'.valid_schedules = Len(results')
       /\ (pc = "search" /\ pc' = "done") =>
              /\ NotBelow(ret'.stats, stats) /\ NotBelow(stats, ret'.stats)
              /\ ret'.stats.valid_schedules = Len(ret'.results)
       /\ (pc = "idle" /\ pc' = "done") =>
              /\ NotBelow(ret'.stats, Statistics)
              /\ ret'.stats.valid_schedules = Len(ret'.results)]_vars

\* a call has returned two combinations after a search that pruned for a
\* conflict and for the full-section cap
C28_Witness ==
    /\ Done
    /\ Len(Returned) = 2
    /\ Counters.valid_schedules = 2
    /\ Counters.pruned_by_conflict >= 1
    /\ Counters.pruned_by_full >= 1

\* ------------------------------------------------------------- C29

\* C29: every call of generate_schedules eventually returns, and the depth of
\* no frame of backtrack ever exceeds the number of courses.
C29_Terminates ==
    /\ <>Done
    /\ [](\A k \in 1..Len(stack) :
             stack[k].step <= Len(course_sections) /\ k <= stack[k].step + 1)

\* a call on as many courses as the bound allows has returned at the cap on
\* results with a feasible combination left out
C29_Witness ==
    /\ Done
    /\ Len(course_sections) = MaxCourses
    /\ Len(Returned) >= 1
    /\ Len(Returned) = constraints.maxSchedules
    /\ FeasibleCount > Len(Returned)
    /\ Counters.nodes_explored > Len(course_sections) + 1

\* ------------------------------------------------------------- C30

\* the combination of no section
EmptyCombination ==
    [selections |-> << >>,
     parsed |-> << >>,
     meta |-> [fullCount |-> 0, endsByPreferred |-> TRUE, hasLate |-> FALSE, latestEnd |-> 0]]

\* C30: called on an empty list of courses with maxSchedules at least 1,
\* generate_schedules returns exactly one combination, with no selection,
\* fullCount 0, latestEnd 0 and hasLate false, and statistics with
\* nodesExplored 1 and validSchedulesFound 1; ScheduleGenerator.generate
\* returns the same single empty combination.
C30_NoCourses ==
    (Done /\ course_sections = << >> /\ constraints.maxSchedules >= 1) =>
        /\ Returned = <<EmptyCombination>>
        /\ Counters.nodes_explored = 1
        /\ Counters.valid_schedules = 1
        /\ ScheduleGenerator_generate(course_sections, ClassConstraints) = Returned

\* a call on no course has returned under a cap of at least one result
C30_Witness ==
    /\ Done
    /\ course_sections = << >>
    /\ constraints.maxSchedules >= 1
    /\ Len(Returned) = 1
    /\ Returned[1].selections = << >>

====
